---- MODULE Spec2Model ----
(***************************************************************************)
(* Model of the Nansen CLI core (src/src/cli.js): the argument parser, the *)
(* output formatter, the family handlers and the command router runCLI.    *)
(*                                                                         *)
(* JavaScript values are tagged records.  Each tag has its own payload     *)
(* field so that two records with the same fields always hold payloads of  *)
(* the same type:                                                          *)
(*   undefined  [k |-> "undef"]          null    [k |-> "null"]            *)
(*   boolean    [k |-> "bool", b |-> _]  number  [k |-> "num", n |-> _]    *)
(*   string     [k |-> "str", s |-> _]   array   [k |-> "arr", a |-> _]    *)
(*   object     [k |-> "obj", o |-> sequence of <<key, value>> pairs in    *)
(*              insertion order]                                           *)
(* Numbers are integers; tokens with a fraction or an exponent are outside *)
(* the modelled inputs.                                                    *)
(***************************************************************************)
EXTENDS Integers, Sequences, FiniteSets, TLC

VARIABLES
  rawArgs,   \* the argument tokens of the invocation
  pc,        \* where the invocation stands: start, parsed, prompt, probe, await, done
  parsed,    \* the ParsedArgs: positional list, flags object, options object
  stdout,    \* the texts written with output, in order
  stderr,    \* the texts written with errorOutput, in order
  exits,     \* the codes exit was called with, in order
  clients,   \* the API client constructions (new NansenAPIClass), in order
  calls,     \* the API client methods invoked, with their parameter object
  invoked,   \* the command handlers invoked, with the client they were given
  logs,      \* the lines written with log by login and logout
  saved,     \* the configurations passed to saveConfigFn
  caught,    \* the errors caught by the catch block of runCLI
  ret,       \* the value runCLI returned, [type |-> "none"] before it returns
  http       \* one call of the HTTP client: retry limit, attempts, delays, outcome

vars ==
  <<rawArgs, pc, parsed, stdout, stderr, exits, clients, calls, invoked, logs, saved,
    caught, ret, http>>

\* the HTTP client before any call: fetches are the responses received,
\* delays the delays waited, inFlight the number of requests sent and not
\* yet answered
NoRequest ==
  [maxRetries |-> 0, attempt |-> 0, fetches |-> <<>>, delays |-> <<>>, inFlight |-> 0,
   outcome |-> [k |-> "none"]]

(***************************************************************************)
(* Bounds                                                                  *)
(***************************************************************************)
\* longest token list given to parseArgs alone
MaxTokens == 3

\* longest argument list given to runCLI
MaxArgs == 3

(***************************************************************************)
(* JavaScript values                                                       *)
(***************************************************************************)
Undef == [k |-> "undef"]
Null == [k |-> "null"]
Bool(x) == [k |-> "bool", b |-> x]
Num(x) == [k |-> "num", n |-> x]
Str(x) == [k |-> "str", s |-> x]
Arr(x) == [k |-> "arr", a |-> x]
Obj(x) == [k |-> "obj", o |-> x]

\* ToBoolean: undefined, null, false, 0 and '' are falsy, all else truthy
Truthy(v) ==
  CASE v.k = "undef" -> FALSE
    [] v.k = "null" -> FALSE
    [] v.k = "bool" -> v.b
    [] v.k = "num" -> v.n # 0
    [] v.k = "str" -> v.s # ""
    [] v.k = "nan" -> FALSE
    [] OTHER -> TRUE

\* a || b
Or(a, b) == IF Truthy(a) THEN a ELSE b

\* own-property helpers on the pair list of an object
RECURSIVE IndexOfKey(_, _, _)
IndexOfKey(pairs, key, i) ==
  IF i > Len(pairs) THEN 0
  ELSE IF pairs[i][1] = key THEN i
  ELSE IndexOfKey(pairs, key, i + 1)

HasOwn(obj, key) == IndexOfKey(obj.o, key, 1) # 0

\* obj[key] for an own property, undefined otherwise
GetProp(obj, key) ==
  LET i == IndexOfKey(obj.o, key, 1)
  IN IF i = 0 THEN Undef ELSE obj.o[i][2]

\* obj[key] = val: an existing key keeps its place, a new key is appended
SetProp(obj, key, val) ==
  LET i == IndexOfKey(obj.o, key, 1)
  IN IF i = 0 THEN Obj(Append(obj.o, <<key, val>>))
     ELSE Obj([obj.o EXCEPT ![i] = <<key, val>>])

\* Object.keys(obj)
ObjectKeys(obj) == [i \in 1..Len(obj.o) |-> obj.o[i][1]]

(***************************************************************************)
(* Strings                                                                 *)
(***************************************************************************)
\* s.startsWith(p)
StartsWith(s, p) == Len(s) >= Len(p) /\ SubSeq(s, 1, Len(p)) = p

\* s.slice(n)
Slice(s, n) == IF n >= Len(s) THEN "" ELSE SubSeq(s, n + 1, Len(s))

\* the character at 1-based position i, "" past the end
Ch(s, i) == IF i >= 1 /\ i <= Len(s) THEN SubSeq(s, i, i) ELSE ""

(***************************************************************************)
(* JSON.parse, for the JSON grammar without escapes, fractions and         *)
(* exponents: literals, integers, strings, arrays and objects.             *)
(* A parse result is [ok, val, pos]: pos is the position after the value.  *)
(***************************************************************************)
Digits == {"0", "1", "2", "3", "4", "5", "6", "7", "8", "9"}

ParseFail == [ok |-> FALSE, val |-> Undef, pos |-> 0]

ParseOk(v, p) == [ok |-> TRUE, val |-> v, pos |-> p]

RECURSIVE SkipWs(_, _)
SkipWs(s, i) == IF Ch(s, i) \in {" ", "\n", "\t", "\r"} THEN SkipWs(s, i + 1) ELSE i

\* the digits from position i on: [n |-> their value, pos |-> position after]
RECURSIVE ParseDigits(_, _, _)
ParseDigits(s, i, acc) ==
  IF Ch(s, i) \in Digits
    THEN ParseDigits(s, i + 1, acc * 10 + (CHOOSE d \in 0..9 : ToString(d) = Ch(s, i)))
  ELSE [n |-> acc, pos |-> i]

\* -? (0 | [1-9][0-9]*); a following '.', 'e' or 'E' is not modelled
ParseNumber(s, i) ==
  LET neg == Ch(s, i) = "-"
      j == IF neg THEN i + 1 ELSE i
      d == ParseDigits(s, j, 0)
  IN IF Ch(s, j) \notin Digits THEN ParseFail
     ELSE IF Ch(s, j) = "0" /\ d.pos > j + 1 THEN ParseOk(Num(0), j + 1)
     ELSE ParseOk(Num(IF neg THEN 0 - d.n ELSE d.n), d.pos)

\* position of the closing quote of a string whose body starts at i, 0 if none
RECURSIVE ClosingQuote(_, _)
ClosingQuote(s, i) ==
  IF i > Len(s) \/ Ch(s, i) = "\\" THEN 0
  ELSE IF Ch(s, i) = "\"" THEN i
  ELSE ClosingQuote(s, i + 1)

ParseString(s, i) ==
  LET q == ClosingQuote(s, i + 1)
  IN IF Ch(s, i) # "\"" \/ q = 0 THEN ParseFail
     ELSE ParseOk(Str(IF q = i + 1 THEN "" ELSE SubSeq(s, i + 1, q - 1)), q + 1)

RECURSIVE ParseValue(_, _)
RECURSIVE ParseElements(_, _, _)
RECURSIVE ParseMembers(_, _, _)

\* what follows the element r of an array: ',' and more elements, or ']'
ElementRead(s, r, acc) ==
  IF ~r.ok THEN ParseFail
  ELSE IF Ch(s, SkipWs(s, r.pos)) = ","
    THEN ParseElements(s, SkipWs(s, r.pos) + 1, Append(acc, r.val))
  ELSE IF Ch(s, SkipWs(s, r.pos)) = "]"
    THEN ParseOk(Arr(Append(acc, r.val)), SkipWs(s, r.pos) + 1)
  ELSE ParseFail

\* the elements of an array after '[' or ',': acc holds those read so far
ParseElements(s, i, acc) == ElementRead(s, ParseValue(s, SkipWs(s, i)), acc)

\* what follows the member key: r of an object: ',' and more members, or
\* '}'; a repeated key keeps its place and takes the later value
MemberRead(s, key, r, acc) ==
  IF ~r.ok THEN ParseFail
  ELSE IF Ch(s, SkipWs(s, r.pos)) = ","
    THEN ParseMembers(s, SkipWs(s, r.pos) + 1, SetProp(acc, key.val.s, r.val))
  ELSE IF Ch(s, SkipWs(s, r.pos)) = "}"
    THEN ParseOk(SetProp(acc, key.val.s, r.val), SkipWs(s, r.pos) + 1)
  ELSE ParseFail

\* what follows the key of a member: ':' and its value
KeyRead(s, key, acc) ==
  IF ~key.ok \/ Ch(s, SkipWs(s, key.pos)) # ":" THEN ParseFail
  ELSE MemberRead(s, key, ParseValue(s, SkipWs(s, SkipWs(s, key.pos) + 1)), acc)

\* the members of an object after '{' or ',': acc holds those read so far
ParseMembers(s, i, acc) == KeyRead(s, ParseString(s, SkipWs(s, i)), acc)

ParseValue(s, i) ==
  LET c == Ch(s, i)
  IN IF c = "\"" THEN ParseString(s, i)
     ELSE IF c = "-" \/ c \in Digits THEN ParseNumber(s, i)
     ELSE IF c = "[" THEN
       (IF Ch(s, SkipWs(s, i + 1)) = "]" THEN ParseOk(Arr(<<>>), SkipWs(s, i + 1) + 1)
        ELSE ParseElements(s, i + 1, <<>>))
     ELSE IF c = "{" THEN
       (IF Ch(s, SkipWs(s, i + 1)) = "}" THEN ParseOk(Obj(<<>>), SkipWs(s, i + 1) + 1)
        ELSE ParseMembers(s, i + 1, Obj(<<>>)))
     ELSE IF StartsWith(Slice(s, i - 1), "true") THEN ParseOk(Bool(TRUE), i + 4)
     ELSE IF StartsWith(Slice(s, i - 1), "false") THEN ParseOk(Bool(FALSE), i + 5)
     ELSE IF StartsWith(Slice(s, i - 1), "null") THEN ParseOk(Null, i + 4)
     ELSE ParseFail

\* a value read from s is the result when only white space follows it
WholeText(s, r) == IF r.ok /\ SkipWs(s, r.pos) = Len(s) + 1 THEN r ELSE ParseFail

\* JSON.parse(s): [ok |-> FALSE] stands for the SyntaxError it throws
JSONParse(s) == WholeText(s, ParseValue(s, SkipWs(s, 1)))

(***************************************************************************)
(* parseArgs (cli.js 10-41)                                                *)
(***************************************************************************)
\* the pure boolean flags without no-retry
PureBooleanFlags_NoRetryTakesValue == {"pretty", "help", "table"}

PureBooleanFlags == {"pretty", "help", "table", "no-retry"}

\* the parsed value, or the raw string when JSON.parse threw
ValueOrRaw(r, next) == IF r.ok THEN r.val ELSE Str(next)

\* try { JSON.parse(next) } catch { next }
ParseOptionValue(next) == ValueOrRaw(JSONParse(next), next)

EmptyResult == [positional |-> <<>>, flags |-> Obj(<<>>), options |-> Obj(<<>>)]

\* the loop of parseArgs from index i (1-based) with the result built so far
RECURSIVE ParseArgsFrom(_, _, _)
ParseArgsFrom(args, i, result) ==
  IF i > Len(args) THEN result
  ELSE
    LET arg == args[i]
        key == Slice(arg, 2)
        next == IF i + 1 <= Len(args) THEN Str(args[i + 1]) ELSE Undef
    IN IF StartsWith(arg, "--") THEN
         IF key \in PureBooleanFlags THEN
           ParseArgsFrom(args, i + 1,
             [result EXCEPT !.flags = SetProp(@, key, Bool(TRUE))])
         ELSE IF Truthy(next) /\ ~StartsWith(next.s, "-") THEN
           ParseArgsFrom(args, i + 2,
             [result EXCEPT !.options = SetProp(@, key, ParseOptionValue(next.s))])
         ELSE
           ParseArgsFrom(args, i + 1,
             [result EXCEPT !.flags = SetProp(@, key, Bool(TRUE))])
       ELSE IF StartsWith(arg, "-") THEN
         ParseArgsFrom(args, i + 1,
           [result EXCEPT !.flags = SetProp(@, Slice(arg, 1), Bool(TRUE))])
       ELSE
         ParseArgsFrom(args, i + 1,
           [result EXCEPT !.positional = Append(@, arg)])

parseArgs(args) == ParseArgsFrom(args, 1, EmptyResult)

(***************************************************************************)
(* Specification of parseArgs alone: every token list over ParseTokens     *)
(***************************************************************************)
ParseTokens ==
  {"token", "", "5", "abc", "true", "[\"Fund\"]", "{\"a\":1}",
   "--chain", "--limit", "--pretty", "--no-retry", "--verbose", "-p", "--"}

TokenLists(T, n) == UNION {[1..m -> T] : m \in 0..n}

InitParse ==
  /\ rawArgs \in TokenLists(ParseTokens, MaxTokens)
  /\ pc = "start"
  /\ parsed = EmptyResult
  /\ stdout = <<>> /\ stderr = <<>> /\ exits = <<>> /\ clients = <<>>
  /\ calls = <<>> /\ invoked = <<>> /\ logs = <<>> /\ saved = <<>>
  /\ caught = <<>> /\ ret = [type |-> "none"]
  /\ http = NoRequest

ParseArgs ==
  /\ pc = "start"
  /\ parsed' = parseArgs(rawArgs)
  /\ pc' = "parsed"
  /\ UNCHANGED <<rawArgs, stdout, stderr, exits, clients, calls, invoked, logs, saved, caught,
                 ret, http>>

NextParse == ParseArgs

SpecParse == InitParse /\ [][NextParse]_vars

(***************************************************************************)
(* Claims about parseArgs                                                  *)
(***************************************************************************)
\* the option name carried by token i
NameAt(args, i) == Slice(args[i], 2)

\* tokens i, i+1 form a `--name value` pair: name is not a pure boolean flag
\* and value does not start with '-'
OptionPairAt(args, i) ==
  /\ i < Len(args)
  /\ StartsWith(args[i], "--")
  /\ NameAt(args, i) \notin PureBooleanFlags
  /\ ~StartsWith(args[i + 1], "-")

\* no later pair carries the same name (a later pair overwrites an earlier one)
LastPairOfName(args, i) ==
  \A j \in (i + 1)..Len(args) :
    OptionPairAt(args, j) => NameAt(args, j) # NameAt(args, i)

\* token i is a bare `--flag`: the last token, or followed by another flag
BareFlagAt(args, i) ==
  /\ StartsWith(args[i], "--")
  /\ (i = Len(args) \/ StartsWith(args[i + 1], "-"))

\* C10: after parseArgs, every `--name value` pair (the last one of its name)
\* whose value does not start with '-' and whose name is not a pure boolean
\* flag is in options[name], JSON-parsed if parseable else as the raw string,
\* and every bare `--flag` or flag followed by another flag is flags[name] = true.
C10_PairsAndFlags ==
  pc = "parsed" =>
    \A i \in 1..Len(rawArgs) :
      /\ (OptionPairAt(rawArgs, i) /\ LastPairOfName(rawArgs, i)) =>
           /\ HasOwn(parsed.options, NameAt(rawArgs, i))
           /\ GetProp(parsed.options, NameAt(rawArgs, i)) = ParseOptionValue(rawArgs[i + 1])
      /\ BareFlagAt(rawArgs, i) =>
           GetProp(parsed.flags, NameAt(rawArgs, i)) = Bool(TRUE)

\* the tokens of args outside the index set V that do not start with '-',
\* in input order, from index i on
RECURSIVE RemainingFrom(_, _, _)
RemainingFrom(args, V, i) ==
  IF i > Len(args) THEN <<>>
  ELSE IF i \in V \/ StartsWith(args[i], "-") THEN RemainingFrom(args, V, i + 1)
  ELSE <<args[i]>> \o RemainingFrom(args, V, i + 1)

\* V can be the set of the tokens taken as option values: each follows a
\* `--name` token whose name is not pretty, help, table or no-retry and does
\* not start with '-', its name is then an option, and a `--name` token not
\* followed by a value is a flag
ValuesTaken(args, p, V) ==
  /\ \A i \in V :
       /\ i >= 2
       /\ StartsWith(args[i - 1], "--")
       /\ NameAt(args, i - 1) \notin {"pretty", "help", "table", "no-retry"}
       /\ ~StartsWith(args[i], "-")
       /\ HasOwn(p.options, NameAt(args, i - 1))
  /\ \A i \in 1..Len(args) :
       (StartsWith(args[i], "--") /\ (i + 1) \notin V) => HasOwn(p.flags, NameAt(args, i))
  /\ \A i \in 1..Len(args) :
       (StartsWith(args[i], "-") /\ ~StartsWith(args[i], "--")) =>
         HasOwn(p.flags, Slice(args[i], 1))

\* C29: parseArgs consumes every input token exactly once: a token is taken
\* as an option value only if it immediately follows a `--name` token whose
\* name is not pretty, help, table or no-retry and does not itself start
\* with '-'; a pure boolean flag and a short flag never consume the next
\* token; every remaining token that does not start with '-' is in the
\* positional list exactly once, in input order, and nothing else is there.
C29_EveryTokenOnce ==
  pc = "parsed" =>
    \E V \in SUBSET (1..Len(rawArgs)) :
      /\ ValuesTaken(rawArgs, parsed, V)
      /\ parsed.positional = RemainingFrom(rawArgs, V, 1)
      /\ Len(ObjectKeys(parsed.options)) <= Cardinality(V)

\* `--chain abc token`: abc is the value of chain, token the one positional
C29_Witness ==
  /\ pc = "parsed"
  /\ rawArgs = <<"--chain", "abc", "token">>
  /\ parsed.positional = <<"token">>
  /\ GetProp(parsed.options, "chain") = Str("abc")

(***************************************************************************)
(* String conversion                                                       *)
(***************************************************************************)
NaN == [k |-> "nan"]

RECURSIVE Repeat(_, _)
\* s.repeat(n)
Repeat(s, n) == IF n <= 0 THEN "" ELSE s \o Repeat(s, n - 1)

\* s.padEnd(w)
PadEnd(s, w) == s \o Repeat(" ", w - Len(s))

\* s.slice(0, w)
Take(s, w) == IF w >= Len(s) THEN s ELSE IF w <= 0 THEN "" ELSE SubSeq(s, 1, w)

\* the elements of strs from index i on, joined by sep
RECURSIVE JoinFrom(_, _, _)
JoinFrom(strs, sep, i) ==
  IF i > Len(strs) THEN ""
  ELSE IF i = Len(strs) THEN strs[i]
  ELSE strs[i] \o sep \o JoinFrom(strs, sep, i + 1)

\* strs.join(sep)
Join(strs, sep) == JoinFrom(strs, sep, 1)

\* String(v), as in a template literal
RECURSIVE ToStr(_)
ToStr(v) ==
  CASE v.k = "undef" -> "undefined"
    [] v.k = "null" -> "null"
    [] v.k = "nan" -> "NaN"
    [] v.k = "bool" -> (IF v.b THEN "true" ELSE "false")
    [] v.k = "num" -> ToString(v.n)
    [] v.k = "str" -> v.s
    [] v.k = "arr" ->
         Join([i \in 1..Len(v.a) |->
                 IF v.a[i].k \in {"undef", "null"} THEN "" ELSE ToStr(v.a[i])], ",")
    [] OTHER -> "[object Object]"

\* v[key] for any value: own properties of objects, elements of arrays,
\* characters of strings, undefined otherwise
PropOf(v, key) ==
  CASE v.k = "obj" -> GetProp(v, key)
    [] v.k = "arr" ->
         (IF \E i \in 1..Len(v.a) : ToString(i - 1) = key
          THEN v.a[CHOOSE i \in 1..Len(v.a) : ToString(i - 1) = key]
          ELSE Undef)
    [] v.k = "str" ->
         (IF \E i \in 1..Len(v.s) : ToString(i - 1) = key
          THEN Str(Ch(v.s, CHOOSE i \in 1..Len(v.s) : ToString(i - 1) = key))
          ELSE Undef)
    [] OTHER -> Undef

(***************************************************************************)
(* JSON.stringify(v, null, indent): indent = 0 is the compact form.        *)
(* Strings of the model hold no character that needs an escape.            *)
(***************************************************************************)
\* the properties JSON.stringify writes: those whose value is not undefined
RECURSIVE DefinedPairsFrom(_, _)
DefinedPairsFrom(pairs, i) ==
  IF i > Len(pairs) THEN <<>>
  ELSE IF pairs[i][2].k = "undef" THEN DefinedPairsFrom(pairs, i + 1)
  ELSE <<pairs[i]>> \o DefinedPairsFrom(pairs, i + 1)


RECURSIVE Stringify(_, _, _)
Stringify(v, indent, depth) ==
  LET inner == Repeat(" ", indent * (depth + 1))
      outer == Repeat(" ", indent * depth)
      open(c) == IF indent = 0 THEN c ELSE c \o "\n" \o inner
      sep == IF indent = 0 THEN "," ELSE ",\n" \o inner
      close(c) == IF indent = 0 THEN c ELSE "\n" \o outer \o c
      colon == IF indent = 0 THEN ":" ELSE ": "
  IN CASE v.k \in {"undef", "null", "nan"} -> "null"
       [] v.k = "bool" -> (IF v.b THEN "true" ELSE "false")
       [] v.k = "num" -> ToString(v.n)
       [] v.k = "str" -> "\"" \o v.s \o "\""
       [] v.k = "arr" ->
            (IF Len(v.a) = 0 THEN "[]"
             ELSE open("[")
                  \o Join([i \in 1..Len(v.a) |-> Stringify(v.a[i], indent, depth + 1)], sep)
                  \o close("]"))
       [] OTHER ->
            LET ps == DefinedPairsFrom(v.o, 1)
            IN IF Len(ps) = 0 THEN "{}"
               ELSE open("{")
                    \o Join([i \in 1..Len(ps) |->
                              "\"" \o ps[i][1] \o "\"" \o colon
                              \o Stringify(ps[i][2], indent, depth + 1)], sep)
                    \o close("}")


(***************************************************************************)
(* Thrown errors are objects with a message and optional code, status and  *)
(* data.  A function outcome is [k |-> "ok", ...] or [k |-> "throw", err]. *)
(***************************************************************************)
TypeError(msg) == Obj(<< <<"message", Str(msg)>> >>)

Throw(e) == [k |-> "throw", err |-> e]

(***************************************************************************)
(* formatValue (cli.js 44-54)                                              *)
(***************************************************************************)
Abs(n) == IF n < 0 THEN 0 - n ELSE n

\* (n / d).toFixed(2) for d > 0: the quotient rounded to hundredths, with the
\* sign of a negative quotient kept even when it rounds to zero.  A quotient
\* exactly halfway between two hundredths is rounded away from zero here; in
\* the source the binary value of the quotient decides it.
ToFixed2(n, d) ==
  LET h == (Abs(n) * 200 + d) \div (2 * d)
      frac == h % 100
  IN (IF n < 0 THEN "-" ELSE "") \o ToString(h \div 100) \o "."
     \o (IF frac < 10 THEN "0" ELSE "") \o ToString(frac)

\* A number is [k |-> "num", n] when it is the integer n, and
\* [k |-> "frac", n, d] when it is the quotient n / d and not an integer.
\* formatValue with the thousands rule tried before the millions rule
formatValue_ThousandsFirst(val) ==
  CASE val.k \in {"null", "undef"} -> ""
    [] val.k = "num" ->
         (IF Abs(val.n) >= 1000 THEN ToFixed2(val.n, 1000) \o "K"
          ELSE IF Abs(val.n) >= 1000000 THEN ToFixed2(val.n, 1000000) \o "M"
          ELSE ToString(val.n))
    [] val.k = "frac" ->
         (IF Abs(val.n) >= 1000000 * val.d THEN ToFixed2(val.n, 1000000 * val.d) \o "M"
          ELSE IF Abs(val.n) >= 1000 * val.d THEN ToFixed2(val.n, 1000 * val.d) \o "K"
          ELSE ToFixed2(val.n, val.d))
    [] val.k = "nan" -> "NaN"
    [] val.k \in {"arr", "obj"} -> Stringify(val, 0, 0)
    [] OTHER -> ToStr(val)

formatValue(val) ==
  CASE val.k \in {"null", "undef"} -> ""
    [] val.k = "num" ->
         (IF Abs(val.n) >= 1000000 THEN ToFixed2(val.n, 1000000) \o "M"
          ELSE IF Abs(val.n) >= 1000 THEN ToFixed2(val.n, 1000) \o "K"
          ELSE ToString(val.n))
    [] val.k = "frac" ->
         (IF Abs(val.n) >= 1000000 * val.d THEN ToFixed2(val.n, 1000000 * val.d) \o "M"
          ELSE IF Abs(val.n) >= 1000 * val.d THEN ToFixed2(val.n, 1000 * val.d) \o "K"
          ELSE ToFixed2(val.n, val.d))
    [] val.k = "nan" -> "NaN"
    [] val.k \in {"arr", "obj"} -> Stringify(val, 0, 0)
    [] OTHER -> ToStr(val)

(***************************************************************************)
(* formatTable (cli.js 57-124).  The box-drawing characters of the source  *)
(* are written '|', '-' and '+': one character each, as in the source.     *)
(***************************************************************************)
IsArray(v) == v.k = "arr"

\* ExtractRecords with results looked at before data
ExtractRecords_ResultsFirst(data) ==
  IF IsArray(data) THEN data.a
  ELSE IF Truthy(PropOf(data, "results")) /\ IsArray(PropOf(data, "results"))
    THEN PropOf(data, "results").a
  ELSE IF Truthy(PropOf(data, "data")) /\ IsArray(PropOf(data, "data"))
    THEN PropOf(data, "data").a
  ELSE IF Truthy(PropOf(PropOf(data, "data"), "results"))
          /\ IsArray(PropOf(PropOf(data, "data"), "results"))
    THEN PropOf(PropOf(data, "data"), "results").a
  ELSE IF data.k = "obj" THEN <<data>>
  ELSE <<>>

\* the record sequence formatTable extracts from the payload
ExtractRecords(data) ==
  IF IsArray(data) THEN data.a
  ELSE IF Truthy(PropOf(data, "data")) /\ IsArray(PropOf(data, "data"))
    THEN PropOf(data, "data").a
  ELSE IF Truthy(PropOf(data, "results")) /\ IsArray(PropOf(data, "results"))
    THEN PropOf(data, "results").a
  ELSE IF Truthy(PropOf(PropOf(data, "data"), "results"))
          /\ IsArray(PropOf(PropOf(data, "data"), "results"))
    THEN PropOf(PropOf(data, "data"), "results").a
  ELSE IF data.k = "obj" THEN <<data>>
  ELSE <<>>

priorityFields ==
  <<"token_symbol", "token_name", "symbol", "name", "address", "label", "chain",
    "value_usd", "amount", "pnl_usd", "price_usd", "volume_usd", "net_flow_usd",
    "timestamp", "block_timestamp">>

\* priorityFields.indexOf(a), 0-based, -1 when absent
PriorityIndex(a) ==
  IF \E i \in 1..Len(priorityFields) : priorityFields[i] = a
  THEN (CHOOSE i \in 1..Len(priorityFields) : priorityFields[i] = a) - 1
  ELSE -1

\* a.localeCompare(b) in the root collation, for keys made of the characters
\* of CollationOrder: punctuation, digits, letters; letters compare without
\* case first, lower case first on a tie
CollationOrder == " _-.:0123456789abcdefghijklmnopqrstuvwxyz"

LowerCase == "abcdefghijklmnopqrstuvwxyz"

UpperCase == "ABCDEFGHIJKLMNOPQRSTUVWXYZ"

\* 1-based position of character c in s, 0 when absent
PosIn(c, s) ==
  IF \E i \in 1..Len(s) : Ch(s, i) = c
  THEN CHOOSE i \in 1..Len(s) : Ch(s, i) = c /\ \A j \in 1..(i - 1) : Ch(s, j) # c
  ELSE 0

ToLowerChar(c) == IF PosIn(c, UpperCase) # 0 THEN Ch(LowerCase, PosIn(c, UpperCase)) ELSE c

\* the primary weights of the characters of s: the place of each in
\* CollationOrder without case, any other character after them all
Ranks(s) ==
  [i \in 1..Len(s) |->
    IF PosIn(ToLowerChar(Ch(s, i)), CollationOrder) # 0
      THEN PosIn(ToLowerChar(Ch(s, i)), CollationOrder)
    ELSE Len(CollationOrder) + 1]

\* comparison of two strings by their primary weights ra and rb, from i on
RECURSIVE PrimaryCompare(_, _, _)
PrimaryCompare(ra, rb, i) ==
  IF i > Len(ra) /\ i > Len(rb) THEN 0
  ELSE IF i > Len(ra) THEN -1
  ELSE IF i > Len(rb) THEN 1
  ELSE IF ra[i] < rb[i] THEN -1
  ELSE IF ra[i] > rb[i] THEN 1
  ELSE PrimaryCompare(ra, rb, i + 1)

RECURSIVE CaseCompare(_, _, _)
CaseCompare(a, b, i) ==
  IF i > Len(a) THEN 0
  ELSE IF Ch(a, i) = Ch(b, i) THEN CaseCompare(a, b, i + 1)
  ELSE IF PosIn(Ch(a, i), LowerCase) # 0 THEN -1
  ELSE 1

\* the primary order decides; case breaks a tie
TieBreak(primary, a, b) == IF primary # 0 THEN primary ELSE CaseCompare(a, b, 1)

localeCompare(a, b) == TieBreak(PrimaryCompare(Ranks(a), Ranks(b), 1), a, b)

\* the comparator of the column sort
CompareColumns(a, b) ==
  LET aIdx == PriorityIndex(a)
      bIdx == PriorityIndex(b)
  IN IF aIdx # -1 /\ bIdx # -1 THEN aIdx - bIdx
     ELSE IF aIdx # -1 THEN -1
     ELSE IF bIdx # -1 THEN 1
     ELSE localeCompare(a, b)

\* [...new Set(keys)]: first occurrences, in order
Unique(keys) ==
  LET firsts == {i \in 1..Len(keys) : \A j \in 1..(i - 1) : keys[j] # keys[i]}
      nth(n) == CHOOSE i \in firsts : Cardinality({j \in firsts : j < i}) = n - 1
  IN [n \in 1..Cardinality(firsts) |-> keys[nth(n)]]

\* records.flatMap(r => Object.keys(r)), from record i on; the keys of an
\* array or a string are its indices, a number or a boolean has none
RECURSIVE FlatKeysFrom(_, _)
FlatKeysFrom(records, i) ==
  IF i > Len(records) THEN <<>>
  ELSE (CASE records[i].k = "obj" -> ObjectKeys(records[i])
          [] records[i].k = "arr" -> [j \in 1..Len(records[i].a) |-> ToString(j - 1)]
          [] records[i].k = "str" -> [j \in 1..Len(records[i].s) |-> ToString(j - 1)]
          [] OTHER -> <<>>)
       \o FlatKeysFrom(records, i + 1)

\* sorted with key put after its first before elements
InsertAt(sorted, key, before) ==
  [i \in 1..(Len(sorted) + 1) |->
     IF i <= before THEN sorted[i]
     ELSE IF i = before + 1 THEN key
     ELSE sorted[i - 1]]

\* insertion of key into a sorted list, after the elements that compare equal
InsertSorted(sorted, key) ==
  InsertAt(sorted, key,
           Cardinality({i \in 1..Len(sorted) : CompareColumns(key, sorted[i]) >= 0}))

\* keys.sort(CompareColumns): a stable sort, the first n keys sorted
RECURSIVE SortFirst(_, _)
SortFirst(keys, n) ==
  IF n = 0 THEN <<>> ELSE InsertSorted(SortFirst(keys, n - 1), keys[n])

SortColumns(keys) == SortFirst(keys, Len(keys))

MaxColumns == 8

MaxWidth == 30

MaxRows == 50

\* the sorted keys, all of them
FirstColumns_Uncut(sorted) == sorted

\* sorted.slice(0, 8)
FirstColumns(sorted) ==
  IF Len(sorted) > MaxColumns THEN SubSeq(sorted, 1, MaxColumns) ELSE sorted

TableColumns(records) == FirstColumns(SortColumns(Unique(FlatKeysFrom(records, 1))))

Min2(a, b) == IF a <= b THEN a ELSE b

\* Math.max(...records.map(r => formatValue(r[col]).length))
MaxOf(lens) == CHOOSE m \in lens : \A n \in lens : n <= m

MaxDataLen(records, col) ==
  MaxOf({Len(formatValue(PropOf(records[i], col))) : i \in 1..Len(records)})

\* the width of a column without the cap
ColumnWidth_Uncapped(records, col) == MaxOf({Len(col), MaxDataLen(records, col)})

ColumnWidth(records, col) == Min2(MaxOf({Len(col), MaxDataLen(records, col)}), MaxWidth)

TableRow(record, columns, widths) ==
  Join([i \in 1..Len(columns) |->
         PadEnd(Take(formatValue(PropOf(record, columns[i])), widths[i]), widths[i])],
       " | ")

\* TableOfWidths with every record rendered as a row
TableOfWidths_AllRows(records, columns, widths) ==
  LET header == Join([i \in 1..Len(columns) |-> PadEnd(columns[i], widths[i])], " | ")
      rule == Join([i \in 1..Len(columns) |-> Repeat("-", widths[i])], "-+-")
      shown == records
      rows == [i \in 1..Len(shown) |-> TableRow(shown[i], columns, widths)]
      more == IF Len(records) > MaxRows
              THEN <<"... and " \o ToString(Len(records) - MaxRows) \o " more rows">>
              ELSE <<>>
  IN <<header, rule>> \o rows \o more

\* the lines of the table of records under the columns and their widths
TableOfWidths(records, columns, widths) ==
  LET header == Join([i \in 1..Len(columns) |-> PadEnd(columns[i], widths[i])], " | ")
      rule == Join([i \in 1..Len(columns) |-> Repeat("-", widths[i])], "-+-")
      shown == IF Len(records) > MaxRows THEN SubSeq(records, 1, MaxRows) ELSE records
      rows == [i \in 1..Len(shown) |-> TableRow(shown[i], columns, widths)]
      more == IF Len(records) > MaxRows
              THEN <<"... and " \o ToString(Len(records) - MaxRows) \o " more rows">>
              ELSE <<>>
  IN <<header, rule>> \o rows \o more

\* the lines of the table of records under the columns
TableOfColumns(records, columns) ==
  TableOfWidths(records, columns,
                [i \in 1..Len(columns) |-> ColumnWidth(records, columns[i])])

\* the lines of the table for a non-empty record sequence
TableLines(records) == TableOfColumns(records, TableColumns(records))

\* the table of the extracted records; Object.keys throws on a record that
\* is null or undefined
TableOfRecords(records) ==
  IF Len(records) = 0 THEN [k |-> "ok", text |-> "No data"]
  ELSE IF \E i \in 1..Len(records) : records[i].k \in {"null", "undef"}
    THEN Throw(TypeError("Cannot convert undefined or null to object"))
  ELSE [k |-> "ok", text |-> Join(TableLines(records), "\n")]

formatTable(data) == TableOfRecords(ExtractRecords(data))

(***************************************************************************)
(* formatOutput (cli.js 127-140), formatError (143-151)                    *)
(***************************************************************************)
\* { type: 'table', text: formatTable(tableData) }, or what formatTable threw
TableOutput(t) ==
  IF t.k = "throw" THEN t ELSE [k |-> "ok", type |-> "table", text |-> t.text]

\* pretty and table are the values of flags.pretty || flags.p and
\* flags.table || flags.t; undefined takes the default false
formatOutput(data, pretty, table) ==
  IF Truthy(table) THEN
    IF PropOf(data, "success") = Bool(FALSE)
    THEN [k |-> "ok", type |-> "error", text |-> "Error: " \o ToStr(PropOf(data, "error"))]
    ELSE TableOutput(formatTable(Or(PropOf(data, "data"), data)))
  ELSE IF Truthy(pretty)
    THEN [k |-> "ok", type |-> "json", text |-> Stringify(data, 2, 0)]
  ELSE [k |-> "ok", type |-> "json", text |-> Stringify(data, 0, 0)]

\* formatError with the status always null
formatError_StatusDropped(error) ==
  Obj(<< <<"success", Bool(FALSE)>>,
         <<"error", PropOf(error, "message")>>,
         <<"code", Or(PropOf(error, "code"), Str("UNKNOWN"))>>,
         <<"status", Null>>,
         <<"details", Or(PropOf(error, "data"), Null)>> >>)

formatError(error) ==
  Obj(<< <<"success", Bool(FALSE)>>,
         <<"error", PropOf(error, "message")>>,
         <<"code", Or(PropOf(error, "code"), Str("UNKNOWN"))>>,
         <<"status", Or(PropOf(error, "status"), Null)>>,
         <<"details", Or(PropOf(error, "data"), Null)>> >>)

(***************************************************************************)
(* Specification of the formatters alone: each of formatValue, formatTable *)
(* and formatOutput applied once to one input                              *)
(***************************************************************************)
MaxRecords == 60

MaxKeys == 11

\* the record sequences the payloads are made of: n records {id: i}, one
\* record with the first m keys of a pool, records with different keys, a
\* key name and cells longer than the widest column, records that are not
\* objects
RecordLists ==
  LET pool == <<"zebra", "token_symbol", "apple", "chain", "value_usd", "name", "amount",
                "address", "symbol", "label", "pnl_usd", "Beta">>
      cells == <<Num(1), Str("ABC"), Num(1500000), Str("ethereum"), Num(-1500), Null,
                 Str("0x28c6c06298d514db089934071355e5743bf21d60"),
                 Obj(<< <<"a", Num(1)>> >>), Bool(TRUE), Str(""), Num(42), Arr(<<>>)>>
      wide(m) == Obj([j \in 1..m |-> <<pool[j], cells[j]>>])
  IN {[i \in 1..n |-> Obj(<< <<"id", Num(i - 1)>> >>)] :
         n \in {0, 1, 2, MaxRows, MaxRows + 1, MaxRecords}}
     \cup {<<wide(m)>> : m \in 1..Min2(MaxKeys, Len(pool))}
     \cup {<<Obj(<< <<"zebra", Num(1)>>, <<"token_symbol", Str("ABC")>>, <<"apple", Num(2)>> >>),
             Obj(<< <<"Beta", Num(3)>>, <<"apple", Num(5000)>>, <<"chain", Str("solana")>> >>)>>,
           <<Obj(<< <<"name", Str("Token1")>>, <<"value_usd", Num(1000)>> >>),
             Obj(<< <<"name", Str("Token2")>>, <<"value_usd", Num(2000)>> >>)>>,
           <<Obj(<< <<"total_value_of_all_positions_in_usd", Num(7)>>,
                    <<"symbol", Str("SOL")>> >>)>>,
           <<Obj(<<>>)>>, <<Str("ab")>>, <<Num(5)>>, <<Null>>}

\* the payloads: every record sequence alone and under data, results and
\* data.results, two of them under competing keys, and payloads that hold
\* no record sequence
Payloads ==
  LET one == <<Obj(<< <<"symbol", Str("SOL")>>, <<"price_usd", Num(100)>> >>)>>
      two == <<Obj(<< <<"symbol", Str("ETH")>>, <<"price_usd", Num(3000)>> >>)>>
  IN {Arr(r) : r \in RecordLists}
     \cup {Obj(<< <<"data", Arr(r)>> >>) : r \in RecordLists}
     \cup {Obj(<< <<"results", Arr(r)>> >>) : r \in RecordLists}
     \cup {Obj(<< <<"data", Obj(<< <<"results", Arr(r)>> >>)>> >>) : r \in RecordLists}
     \cup {Obj(<< <<"results", Arr(one)>>, <<"data", Arr(two)>> >>),
           Obj(<< <<"results", Arr(one)>>, <<"data", Arr(<<>>)>> >>),
           Obj(<< <<"results", Arr(one)>>, <<"data", Num(5)>> >>),
           Obj(<< <<"data", Obj(<< <<"results", Arr(one)>> >>)>>, <<"results", Arr(two)>> >>),
           Obj(<< <<"data", Obj(<< <<"results", Arr(one)>> >>)>>, <<"results", Str("x")>> >>),
           Obj(<< <<"name", Str("Single")>>, <<"value", Num(123)>> >>),
           Obj(<< <<"data", Null>>, <<"count", Num(0)>> >>),
           Obj(<<>>), Num(42), Num(0), Str("text"), Str(""), Bool(TRUE), Bool(FALSE),
           Null, Undef}

InitFormat ==
  /\ rawArgs = <<>>
  /\ pc = "start"
  /\ parsed = EmptyResult
  /\ stdout = <<>> /\ stderr = <<>> /\ exits = <<>> /\ clients = <<>>
  /\ calls = <<>> /\ invoked = <<>> /\ logs = <<>> /\ saved = <<>>
  /\ caught = <<>> /\ ret = [type |-> "none"]
  /\ http = NoRequest

\* formatValue(val)
CallFormatValue ==
  /\ pc = "start"
  /\ \E val \in {Num(n) : n \in {0, 7, 42, -42, 999, -999, 1000, -1000, 1500, -1500, 5000,
                                  999994, 999999, 1000000, -1000000, 1500000, -1500000,
                                  -2000000, 9999999}}
                \cup {[k |-> "frac", n |-> n, d |-> 1000] :
                        n \in {3141, -3141, 1, -1, 999900, -999900, 999999, 1000500,
                               -1234567}}
                \cup {[k |-> "frac", n |-> n, d |-> 2] :
                        n \in {1, -1, 1999, 1999999, 3000001, -2000001}}
                \cup {Null, Undef, Str("hello"), Str(""), Bool(TRUE), Bool(FALSE),
                      Obj(<< <<"a", Num(1)>> >>), Arr(<<Num(1), Num(2)>>)} :
       ret' = [type |-> "formatValue", val |-> val, text |-> formatValue(val)]
  /\ pc' = "formatted"
  /\ UNCHANGED <<rawArgs, parsed, http, stdout, stderr, exits, clients, calls, invoked, logs,
                 saved, caught>>

\* formatTable(data)
CallFormatTable ==
  /\ pc = "start"
  /\ \E data \in Payloads :
       ret' = [type |-> "formatTable", data |-> data, outcome |-> formatTable(data)]
  /\ pc' = "formatted"
  /\ UNCHANGED <<rawArgs, parsed, http, stdout, stderr, exits, clients, calls, invoked, logs,
                 saved, caught>>

\* formatOutput(data, { pretty, table }) on a success envelope of a payload,
\* a failure envelope, or a bare response
CallFormatOutput ==
  /\ pc = "start"
  /\ \E data \in {Obj(<< <<"success", Bool(TRUE)>>, <<"data", p>> >>) : p \in Payloads}
                 \cup {Obj(<< <<"success", Bool(FALSE)>>, <<"error", Str("Oops")>> >>),
                       Obj(<< <<"success", Bool(FALSE)>>, <<"error", Str("Invalid API key")>>,
                              <<"code", Str("UNKNOWN")>>, <<"status", Num(401)>>,
                              <<"details", Null>> >>),
                       Obj(<< <<"a", Num(1)>> >>),
                       Obj(<< <<"data", Arr(<<Obj(<< <<"x", Num(1)>> >>)>>)>> >>)},
        pretty \in BOOLEAN, table \in BOOLEAN :
       ret' = [type |-> "formatOutput", data |-> data, pretty |-> pretty, table |-> table,
               outcome |-> formatOutput(data, Bool(pretty), Bool(table))]
  /\ pc' = "formatted"
  /\ UNCHANGED <<rawArgs, parsed, http, stdout, stderr, exits, clients, calls, invoked, logs,
                 saved, caught>>

NextFormat == CallFormatValue \/ CallFormatTable \/ CallFormatOutput

SpecFormat == InitFormat /\ [][NextFormat]_vars

(***************************************************************************)
(* Claims about the formatters                                             *)
(***************************************************************************)
\* the texts of n / d with two decimals: sign, whole part, '.', two digits,
\* for the hundredths nearest to the quotient (both neighbours at a half)
TwoDecimals(n, d) ==
  {(IF n < 0 THEN "-" ELSE "") \o ToString(h \div 100) \o "."
     \o (IF h % 100 < 10 THEN "0" ELSE "") \o ToString(h % 100) :
   h \in {g \in {(Abs(n) * 100) \div d, (Abs(n) * 100) \div d + 1} :
            2 * Abs(Abs(n) * 100 - g * d) <= d}}

\* the denominator of the number v
DenominatorOf(v) == IF v.k = "frac" THEN v.d ELSE 1

\* C27: formatValue renders a number by the first rule that applies: absolute
\* value >= 1,000,000 as value/1,000,000 with two decimals and 'M'; absolute
\* value >= 1,000 as value/1,000 with two decimals and 'K'; an integer as its
\* plain digits; any other number with two decimals; null and undefined as
\* the empty string; a negative value keeps its sign.
C27_NumberClasses ==
  ret.type = "formatValue" =>
    /\ ret.val.k \in {"null", "undef"} => ret.text = ""
    /\ ret.val.k \in {"num", "frac"} =>
         /\ IF Abs(ret.val.n) >= 1000000 * DenominatorOf(ret.val)
              THEN \E t \in TwoDecimals(ret.val.n, 1000000 * DenominatorOf(ret.val)) :
                     ret.text = t \o "M"
            ELSE IF Abs(ret.val.n) >= 1000 * DenominatorOf(ret.val)
              THEN \E t \in TwoDecimals(ret.val.n, 1000 * DenominatorOf(ret.val)) :
                     ret.text = t \o "K"
            ELSE IF ret.val.k = "num" THEN ret.text = ToString(ret.val.n)
            ELSE ret.text \in TwoDecimals(ret.val.n, ret.val.d)
         /\ ret.val.n < 0 => Ch(ret.text, 1) = "-"

C27_Witness ==
  /\ ret.type = "formatValue"
  /\ ret.val = Num(-1500000)
  /\ ret.text = "-1.50M"

\* C22: formatOutput selects the rendering from the flags, table before
\* pretty: with table, the one-line text 'Error: <message>' when the envelope
\* signals failure and the table rendering of the envelope's payload
\* otherwise; with pretty and no table, the indented JSON of the whole
\* envelope; with neither, its compact JSON.
C22_RenderingByFlags ==
  (ret.type = "formatOutput" /\ PropOf(ret.data, "success").k = "bool") =>
    IF ret.table
      THEN IF PropOf(ret.data, "success") = Bool(FALSE)
             THEN ret.outcome = [k |-> "ok", type |-> "error",
                                 text |-> "Error: " \o PropOf(ret.data, "error").s]
           ELSE \E t \in {formatTable(PropOf(ret.data, "data"))} :
                  IF t.k = "throw" THEN ret.outcome = t
                  ELSE ret.outcome = [k |-> "ok", type |-> "table", text |-> t.text]
    ELSE ret.outcome = [k |-> "ok", type |-> "json",
                        text |-> Stringify(ret.data, IF ret.pretty THEN 2 ELSE 0, 0)]

\* the record sequence the extraction rules name for a payload: the payload
\* when it is an array, else data, else results, else data.results when
\* that is an array, else the payload alone
RuleRecords(data) ==
  IF data.k = "arr" THEN data.a
  ELSE IF PropOf(data, "data").k = "arr" THEN PropOf(data, "data").a
  ELSE IF PropOf(data, "results").k = "arr" THEN PropOf(data, "results").a
  ELSE IF PropOf(PropOf(data, "data"), "results").k = "arr"
    THEN PropOf(PropOf(data, "data"), "results").a
  ELSE <<data>>

\* the text is the table of exactly these records
TableOf(records, outcome) ==
  \/ Len(records) = 0 /\ outcome = [k |-> "ok", text |-> "No data"]
  \/ /\ Len(records) > 0
     /\ outcome = TableOfRecords(records)
     /\ outcome.k = "ok" => outcome.text # "No data"

\* C23: formatTable takes its records by the first rule that applies (the
\* payload is an array; payload.data is; payload.results is;
\* payload.data.results is; else the payload alone as one record) and returns
\* 'No data' exactly when that sequence is empty.
C23_ExtractionOrder ==
  ret.type = "formatTable" => TableOf(RuleRecords(ret.data), ret.outcome)

\* C23 (amended): as C23, the last rule applying to a payload that is an
\* object only: a payload that is neither an array nor an object gives the
\* empty sequence, hence 'No data'.
C23_ObjectAsSingleRecord ==
  ret.type = "formatTable" =>
    TableOf(IF ret.data.k \in {"arr", "obj"} THEN RuleRecords(ret.data) ELSE <<>>, ret.outcome)

C23_Witness ==
  /\ ret.type = "formatTable"
  /\ ret.data = Obj(<< <<"data", Obj(<< <<"results", Arr(<<Obj(<< <<"symbol", Str("SOL")>>,
                                                               <<"price_usd", Num(100)>> >>)>>)>> >>)>>,
                       <<"results", Arr(<<Obj(<< <<"symbol", Str("ETH")>>,
                                                <<"price_usd", Num(3000)>> >>)>>)>> >>)
  /\ ret.outcome = [k |-> "ok", text |-> "symbol | price_usd\n-------+----------\nETH    | 3.00K    "]

\* the lines of text, feeds being the positions of its line feeds
LinesAt(text, feeds) ==
  [k \in 1..(Cardinality(feeds) + 1) |->
    SubSeq(text,
           IF k = 1 THEN 1
           ELSE 1 + CHOOSE i \in feeds : Cardinality({j \in feeds : j < i}) = k - 2,
           IF k = Cardinality(feeds) + 1 THEN Len(text)
           ELSE (CHOOSE i \in feeds : Cardinality({j \in feeds : j < i}) = k - 1) - 1)]

\* the lines of the rendered table of a formatTable call
RenderedLines ==
  LinesAt(ret.outcome.text,
          {i \in 1..Len(ret.outcome.text) : Ch(ret.outcome.text, i) = "\n"})

\* a table of the records {id: 0}, {id: 1}, ... was rendered
IdTableRendered ==
  /\ ret.type = "formatTable"
  /\ ret.data.k = "arr"
  /\ Len(ret.data.a) > 0
  /\ \A i \in 1..Len(ret.data.a) : ret.data.a[i] = Obj(<< <<"id", Num(i - 1)>> >>)

\* C24: of n records formatTable renders exactly min(n, 50) data rows, the
\* first ones in input order; for n > 50 exactly one more line follows,
\* reporting n - 50 omitted rows; for n <= 50 no such line follows.
C24_RowLimit ==
  IdTableRendered =>
    \E n \in {Len(ret.data.a)}, lines \in {RenderedLines} :
      /\ Len(lines) = 2 + (IF n > 50 THEN 51 ELSE n)
      /\ \A i \in 1..(IF n > 50 THEN 50 ELSE n) : lines[2 + i] = PadEnd(ToString(i - 1), 2)
      /\ n > 50 => lines[53] = "... and " \o ToString(n - 50) \o " more rows"

C24_Witness ==
  /\ IdTableRendered
  /\ Len(ret.data.a) = 60
  /\ RenderedLines[52] = "49"
  /\ RenderedLines[53] = "... and 10 more rows"
  /\ Len(RenderedLines) = 53

\* s without its leading and trailing spaces
Trimmed(s) ==
  IF \A i \in 1..Len(s) : Ch(s, i) = " " THEN ""
  ELSE SubSeq(s, CHOOSE i \in 1..Len(s) : Ch(s, i) # " " /\ \A j \in 1..(i - 1) : Ch(s, j) = " ",
              CHOOSE i \in 1..Len(s) : Ch(s, i) # " " /\ \A j \in (i + 1)..Len(s) : Ch(s, j) = " ")

\* the cells of a line, bars being the positions of its column boundaries
CellsAt(line, bars) ==
  [k \in 1..(Cardinality(bars) + 1) |->
    SubSeq(line,
           IF k = 1 THEN 1
           ELSE 2 + CHOOSE i \in bars : Cardinality({j \in bars : j < i}) = k - 2,
           IF k = Cardinality(bars) + 1 THEN Len(line)
           ELSE (CHOOSE i \in bars : Cardinality({j \in bars : j < i}) = k - 1) - 2)]

\* the cells of a line of a table: the texts between the ' | ' boundaries
CellsOf(line) == CellsAt(line, {i \in 1..Len(line) : Ch(line, i) = "|"})

\* formatTable rendered a table
TableRendered ==
  /\ ret.type = "formatTable"
  /\ ret.outcome.k = "ok"
  /\ ret.outcome.text # "No data"

\* the records of the rendered table
RenderedRecords == IF ret.data.k \in {"arr", "obj"} THEN RuleRecords(ret.data) ELSE <<>>

\* the column names in the header line of the rendered table
HeaderColumns ==
  IF RenderedLines[1] = "" THEN <<>>
  ELSE [i \in 1..Len(CellsOf(RenderedLines[1])) |-> Trimmed(CellsOf(RenderedLines[1])[i])]

\* the keys of one record
KeySetOf(r) ==
  CASE r.k = "obj" -> {r.o[j][1] : j \in 1..Len(r.o)}
    [] r.k = "str" -> {ToString(j - 1) : j \in 1..Len(r.s)}
    [] OTHER -> {}

\* key a has its place before key b: both in the priority list and a first
\* there, or a alone in the list, or neither and a first in the alphabet
PlacedBefore(a, b) ==
  \/ PriorityIndex(a) # -1 /\ PriorityIndex(b) # -1 /\ PriorityIndex(a) < PriorityIndex(b)
  \/ PriorityIndex(a) # -1 /\ PriorityIndex(b) = -1
  \/ PriorityIndex(a) = -1 /\ PriorityIndex(b) = -1 /\ localeCompare(a, b) < 0

RuleWidth(records, col) ==
  CHOOSE w \in 0..30 :
    \E m \in {Len(col)} \cup {Len(formatValue(PropOf(records[i], col))) : i \in 1..Len(records)} :
      /\ Len(col) <= m
      /\ \A i \in 1..Len(records) : Len(formatValue(PropOf(records[i], col))) <= m
      /\ w = (IF m > 30 THEN 30 ELSE m)

\* text v in exactly w characters: cut to w, or padded with spaces to w
CutOrPad(v, w) == IF Len(v) >= w THEN SubSeq(v, 1, w) ELSE v \o Repeat(" ", w - Len(v))

\* C26: the width of a column is min(max(header length, longest formatted
\* cell of the column), 30), and every data cell has exactly that many
\* characters: the formatted value cut to the width or padded to it.
C26_Widths ==
  TableRendered =>
    \E records \in {RenderedRecords}, lines \in {RenderedLines}, cols \in {HeaderColumns} :
      \E widths \in {[i \in 1..Len(cols) |-> RuleWidth(records, cols[i])]} :
        /\ lines[2] = Join([i \in 1..Len(cols) |-> Repeat("-", widths[i])], "-+-")
        /\ \A r \in 1..(IF Len(records) > 50 THEN 50 ELSE Len(records)) :
             lines[2 + r]
               = Join([i \in 1..Len(cols) |->
                        CutOrPad(formatValue(PropOf(records[r], cols[i])), widths[i])], " | ")

C26_Witness ==
  /\ TableRendered
  /\ ret.data.k = "arr"
  /\ HeaderColumns = <<"token_symbol", "name", "chain", "value_usd", "amount", "apple", "zebra">>
  /\ PropOf(ret.data.a[1], "amount") = Str("0x28c6c06298d514db089934071355e5743bf21d60")
  /\ RenderedLines[3]
       = "ABC          |      | ethereum | -1.50K    | 0x28c6c06298d514db089934071355 | 1.50M | 1    "

\* C30: every line of a rendered table other than the trailing 'more rows'
\* line has the same length, the sum of the column widths plus three
\* characters per column boundary: the header line, the separator line and
\* each data row, whatever the records and the key names.
C30_LinesOfEqualLength ==
  TableRendered =>
    \E records \in {RenderedRecords}, lines \in {RenderedLines} :
      \A i \in 1..(2 + (IF Len(records) > 50 THEN 50 ELSE Len(records))) :
        Len(lines[i]) = Len(lines[2])

(***************************************************************************)
(* parseSort (cli.js 154-167)                                              *)
(***************************************************************************)
\* position of the first sep at or after i, 0 when there is none
RECURSIVE IndexOfFrom(_, _, _)
IndexOfFrom(s, sep, i) ==
  IF i > Len(s) THEN 0
  ELSE IF Ch(s, i) = sep THEN i
  ELSE IndexOfFrom(s, sep, i + 1)

\* s.split(sep) for a one-character separator, from position i on
RECURSIVE SplitFrom(_, _, _)
SplitFrom(s, sep, i) ==
  LET j == IndexOfFrom(s, sep, i)
  IN IF j = 0 THEN <<Slice(s, i - 1)>>
     ELSE <<(IF j = i THEN "" ELSE SubSeq(s, i, j - 1))>> \o SplitFrom(s, sep, j + 1)


RECURSIVE UpperFrom(_, _)
UpperFrom(s, i) ==
  IF i > Len(s) THEN ""
  ELSE (IF PosIn(Ch(s, i), LowerCase) # 0 THEN Ch(UpperCase, PosIn(Ch(s, i), LowerCase))
        ELSE Ch(s, i)) \o UpperFrom(s, i + 1)

\* s.toUpperCase()

\* the outcome of parseSort: [k |-> "ok", val] or a thrown TypeError when
\* sortOption is truthy and not a string (it has no split method)
parseSort(sortOption, orderByOption) ==
  IF Truthy(orderByOption) THEN [k |-> "ok", val |-> orderByOption]
  ELSE IF ~Truthy(sortOption) THEN [k |-> "ok", val |-> Undef]
  ELSE IF sortOption.k # "str" THEN Throw(TypeError("sortOption.split is not a function"))
  ELSE
    LET parts == SplitFrom(sortOption.s, ":", 1)
        field == parts[1]
        second == IF Len(parts) >= 2 THEN Str(parts[2]) ELSE Undef
        direction == UpperFrom(Or(second, Str("desc")).s, 1)
    IN [k |-> "ok",
        val |-> Arr(<<Obj(<< <<"field", Str(field)>>, <<"direction", Str(direction)>> >>)>>)]

(***************************************************************************)
(* Specification of sort resolution alone: parseArgs, then parseSort on    *)
(* the sort and order-by options it produced                               *)
(***************************************************************************)
SortTokens ==
  {"--sort", "--order-by", "value_usd:asc", "timestamp", "5", "0",
   "[{\"field\":\"price\",\"direction\":\"ASC\"}]", "--pretty"}

InitSort ==
  /\ rawArgs \in TokenLists(SortTokens, MaxTokens)
  /\ pc = "start"
  /\ parsed = EmptyResult
  /\ stdout = <<>> /\ stderr = <<>> /\ exits = <<>> /\ clients = <<>>
  /\ calls = <<>> /\ invoked = <<>> /\ logs = <<>> /\ saved = <<>>
  /\ caught = <<>> /\ ret = [type |-> "none"]
  /\ http = NoRequest

\* const orderBy = parseSort(options.sort, options['order-by'])
ResolveSort ==
  /\ pc = "start"
  /\ \E p \in {parseArgs(rawArgs)} :
       /\ parsed' = p
       /\ ret' = [type |-> "sort",
                  outcome |-> parseSort(GetProp(p.options, "sort"),
                                        GetProp(p.options, "order-by"))]
  /\ pc' = "sorted"
  /\ UNCHANGED <<rawArgs, http, stdout, stderr, exits, clients, calls, invoked, logs, saved, caught>>

NextSort == ResolveSort

SpecSort == InitSort /\ [][NextSort]_vars

(***************************************************************************)
(* Claims about sort resolution                                            *)
(***************************************************************************)
\* position of the first ':' of s, 0 when there is none
FirstColon(s) ==
  IF \E i \in 1..Len(s) : Ch(s, i) = ":"
  THEN CHOOSE i \in 1..Len(s) : Ch(s, i) = ":" /\ \A j \in 1..(i - 1) : Ch(s, j) # ":"
  ELSE 0

\* [{field, direction}] for the sort text s: field is the text before ':',
\* direction the upper-cased text after it, DESC when there is no ':'
SortList(s) ==
  Arr(<<Obj(<< <<"field", Str(IF FirstColon(s) = 0 THEN s ELSE Take(s, FirstColon(s) - 1))>>,
               <<"direction", Str(IF FirstColon(s) = 0 THEN "DESC"
                                  ELSE UpperFrom(Slice(s, FirstColon(s)), 1))>> >>)>>)

\* C11: sort resolution returns the --order-by value verbatim when --order-by
\* is present; otherwise, when --sort is present, the list [{field, direction}]
\* of its text; otherwise undefined.  It never throws.
C11_SortResolution ==
  pc = "sorted" =>
    /\ ret.outcome.k = "ok"
    /\ HasOwn(parsed.options, "order-by") =>
         ret.outcome.val = GetProp(parsed.options, "order-by")
    /\ (~HasOwn(parsed.options, "order-by") /\ HasOwn(parsed.options, "sort")
        /\ GetProp(parsed.options, "sort").k = "str") =>
         ret.outcome.val = SortList(GetProp(parsed.options, "sort").s)
    /\ (~HasOwn(parsed.options, "order-by") /\ ~HasOwn(parsed.options, "sort")) =>
         ret.outcome.val = Undef

(***************************************************************************)
(* parseInt                                                                *)
(***************************************************************************)
\* parseInt(v): the integer prefix of String(v) after white space and sign,
\* NaN when there is none (hexadecimal prefixes are not among the inputs)
ParseInt(v) ==
  LET s == ToStr(v)
      i == SkipWs(s, 1)
      neg == Ch(s, i) = "-"
      j == IF Ch(s, i) \in {"-", "+"} THEN i + 1 ELSE i
      d == ParseDigits(s, j, 0)
  IN IF Ch(s, j) \notin Digits THEN NaN
     ELSE Num(IF neg THEN 0 - d.n ELSE d.n)

(***************************************************************************)
(* Family handlers (cli.js 341-479).  A handler outcome is                 *)
(*   [k |-> "return", val, options]            the handler returned val    *)
(*   [k |-> "throw", err, options]             the handler threw err       *)
(*   [k |-> "call", method, params, options]   the handler called the API  *)
(*                                             method and returns its      *)
(*                                             result                      *)
(* options is the options object as the handler leaves it.                 *)
(***************************************************************************)
Families == {"smart-money", "profiler", "token", "portfolio"}

\* the members every object inherits from Object.prototype that the model
\* covers; handlers[name] and commands[name] find them as well as own keys
InheritedMembers ==
  {"constructor", "toString", "toLocaleString", "hasOwnProperty",
   "propertyIsEnumerable", "isPrototypeOf", "__proto__"}

\* obj[name](...args) for an inherited member, obj having the own keys ownKeys
InheritedCall(name, ownKeys, args) ==
  LET first == IF Len(args) >= 1 THEN args[1] ELSE Undef
  IN CASE name \in {"toString", "toLocaleString"} ->
            [k |-> "ok", val |-> Str("[object Object]")]
       [] name = "constructor" ->
            [k |-> "ok", val |-> IF first.k \in {"arr", "obj"} THEN first ELSE Obj(<<>>)]
       [] name \in {"hasOwnProperty", "propertyIsEnumerable"} ->
            [k |-> "ok", val |-> Bool(\E i \in 1..Len(ownKeys) : ownKeys[i] = ToStr(first))]
       [] name = "isPrototypeOf" -> [k |-> "ok", val |-> Bool(FALSE)]
       [] OTHER -> Throw(TypeError("handlers[subcommand] is not a function"))

\* options.limit ? { page: 1, [perPage]: options.limit } : undefined
Pagination(options, perPage) ==
  IF Truthy(GetProp(options, "limit"))
  THEN Obj(<< <<"page", Num(1)>>, <<perPage, GetProp(options, "limit")>> >>)
  ELSE Undef

\* options.days ? parseInt(options.days) : 30
Days(options) ==
  IF Truthy(GetProp(options, "days")) THEN ParseInt(GetProp(options, "days")) ELSE Num(30)

\* const filters = options.filters || {}; then, when assign holds,
\* filters[key] = val.  The object held in options.filters is the one written
\* to; a primitive filters value makes the assignment throw (module code is
\* strict); an array takes the property without any change to its elements.
ResolveFilters(options, assign, key, val) ==
  LET given == GetProp(options, "filters")
      filters == Or(given, Obj(<<>>))
  IN IF ~assign THEN [k |-> "ok", filters |-> filters, options |-> options]
     ELSE IF filters.k = "obj" THEN
       [k |-> "ok", filters |-> SetProp(filters, key, val),
        options |-> IF Truthy(given)
                    THEN SetProp(options, "filters", SetProp(filters, key, val))
                    ELSE options]
     ELSE IF filters.k = "arr" THEN [k |-> "ok", filters |-> filters, options |-> options]
     ELSE Throw(TypeError("Cannot create property '" \o key \o "' on " \o ToStr(filters)))

\* options['smart-money'] || flags['smart-money'] || false
OnlySmartMoney(flags, options) ==
  Or(Or(GetProp(options, "smart-money"), GetProp(flags, "smart-money")), Bool(FALSE))

\* the filters of a family handler with the labels stored as given, without
\* the one-element array around a single label
FamilyFilters_LabelsUnwrapped(family, flags, options) ==
  LET labels == GetProp(options, "labels")
  IN CASE family = "smart-money" ->
            ResolveFilters(options, Truthy(labels), "include_smart_money_labels", labels)
       [] family = "token" ->
            ResolveFilters(options, Truthy(OnlySmartMoney(flags, options)),
                           "only_smart_money", Bool(TRUE))
       [] OTHER -> ResolveFilters(options, FALSE, "", Undef)

\* the filters of a family handler: smart-money adds the labels given with
\* --labels, token adds only_smart_money when it is asked for
FamilyFilters(family, flags, options) ==
  LET labels == GetProp(options, "labels")
  IN CASE family = "smart-money" ->
            ResolveFilters(options, Truthy(labels), "include_smart_money_labels",
                           IF IsArray(labels) THEN labels ELSE Arr(<<labels>>))
       [] family = "token" ->
            ResolveFilters(options, Truthy(OnlySmartMoney(flags, options)),
                           "only_smart_money", Bool(TRUE))
       [] OTHER -> ResolveFilters(options, FALSE, "", Undef)

\* the local variables of a family handler, given the outcome of parseSort
\* and the resolved filters
LocalsOf(family, flags, options, sort, resolved) ==
  LET opt(name) == GetProp(options, name)
      smartMoneyChain == Or(opt("chain"), Str("solana"))
  IN CASE family = "smart-money" ->
            Obj(<< <<"chains", Or(opt("chains"), Arr(<<smartMoneyChain>>))>>,
                   <<"filters", resolved.filters>>,
                   <<"orderBy", sort.val>>,
                   <<"pagination", Pagination(options, "per_page")>>,
                   <<"days", Days(options)>> >>)
       [] family = "profiler" ->
            Obj(<< <<"address", opt("address")>>,
                   <<"entityName", Or(opt("entity"), opt("entity-name"))>>,
                   <<"chain", Or(opt("chain"), Str("ethereum"))>>,
                   <<"filters", resolved.filters>>,
                   <<"orderBy", sort.val>>,
                   <<"pagination", Pagination(options, "recordsPerPage")>>,
                   <<"days", Days(options)>>,
                   <<"query", opt("query")>> >>)
       [] family = "token" ->
            Obj(<< <<"tokenAddress", Or(opt("token"), opt("token-address"))>>,
                   <<"tokenSymbol", Or(opt("symbol"), opt("token-symbol"))>>,
                   <<"chain", smartMoneyChain>>,
                   <<"chains", Or(opt("chains"), Arr(<<smartMoneyChain>>))>>,
                   <<"timeframe", Or(opt("timeframe"), Str("24h"))>>,
                   <<"filters", resolved.filters>>,
                   <<"orderBy", sort.val>>,
                   <<"pagination", Pagination(options, "per_page")>>,
                   <<"days", Days(options)>>,
                   <<"onlySmartMoney", OnlySmartMoney(flags, options)>> >>)
       [] OTHER ->
            Obj(<< <<"walletAddress", Or(opt("wallet"), opt("address"))>> >>)

\* the statements of a family handler before dispatch, given the outcome of
\* parseSort and the resolved filters: [k |-> "ok", locals, options] or
\* [k |-> "throw", err]; portfolio does not call parseSort
LocalsOrThrow(family, flags, options, sort, resolved) ==
  IF family # "portfolio" /\ sort.k = "throw" THEN sort
  ELSE IF resolved.k = "throw" THEN resolved
  ELSE [k |-> "ok", locals |-> LocalsOf(family, flags, options, sort, resolved),
        options |-> resolved.options]

\* the local variables of a family handler before dispatch
FamilyLocals(family, flags, options) ==
  LocalsOrThrow(family, flags, options,
                parseSort(GetProp(options, "sort"), GetProp(options, "order-by")),
                FamilyFilters(family, flags, options))

\* the data entries of a family's handlers object, in source order:
\* <<subcommand, API method, names of the locals passed>>
DataHandlers(family) ==
  CASE family = "smart-money" ->
         << <<"netflow", "smartMoneyNetflow", <<"chains", "filters", "orderBy", "pagination">> >>,
            <<"dex-trades", "smartMoneyDexTrades", <<"chains", "filters", "orderBy", "pagination">> >>,
            <<"perp-trades", "smartMoneyPerpTrades", <<"filters", "orderBy", "pagination">> >>,
            <<"holdings", "smartMoneyHoldings", <<"chains", "filters", "orderBy", "pagination">> >>,
            <<"dcas", "smartMoneyDcas", <<"filters", "orderBy", "pagination">> >>,
            <<"historical-holdings", "smartMoneyHistoricalHoldings",
              <<"chains", "filters", "orderBy", "pagination", "days">> >> >>
    [] family = "profiler" ->
         << <<"balance", "addressBalance", <<"address", "entityName", "chain", "filters", "orderBy">> >>,
            <<"labels", "addressLabels", <<"address", "chain", "pagination">> >>,
            <<"transactions", "addressTransactions",
              <<"address", "chain", "filters", "orderBy", "pagination">> >>,
            <<"pnl", "addressPnl", <<"address", "chain">> >>,
            <<"search", "entitySearch", <<"query", "pagination">> >>,
            <<"historical-balances", "addressHistoricalBalances",
              <<"address", "chain", "filters", "orderBy", "pagination", "days">> >>,
            <<"related-wallets", "addressRelatedWallets",
              <<"address", "chain", "filters", "orderBy", "pagination">> >>,
            <<"counterparties", "addressCounterparties",
              <<"address", "chain", "filters", "orderBy", "pagination", "days">> >>,
            <<"pnl-summary", "addressPnlSummary",
              <<"address", "chain", "filters", "orderBy", "pagination", "days">> >>,
            <<"perp-positions", "addressPerpPositions",
              <<"address", "filters", "orderBy", "pagination">> >>,
            <<"perp-trades", "addressPerpTrades",
              <<"address", "filters", "orderBy", "pagination", "days">> >> >>
    [] family = "token" ->
         << <<"screener", "tokenScreener",
              <<"chains", "timeframe", "filters", "orderBy", "pagination">> >>,
            <<"holders", "tokenHolders",
              <<"tokenAddress", "chain", "filters", "orderBy", "pagination">> >>,
            <<"flows", "tokenFlows",
              <<"tokenAddress", "chain", "filters", "orderBy", "pagination">> >>,
            <<"dex-trades", "tokenDexTrades",
              <<"tokenAddress", "chain", "onlySmartMoney", "filters", "orderBy",
                "pagination", "days">> >>,
            <<"pnl", "tokenPnlLeaderboard",
              <<"tokenAddress", "chain", "filters", "orderBy", "pagination", "days">> >>,
            <<"who-bought-sold", "tokenWhoBoughtSold",
              <<"tokenAddress", "chain", "filters", "orderBy", "pagination">> >>,
            <<"flow-intelligence", "tokenFlowIntelligence",
              <<"tokenAddress", "chain", "filters", "orderBy", "pagination">> >>,
            <<"transfers", "tokenTransfers",
              <<"tokenAddress", "chain", "filters", "orderBy", "pagination", "days">> >>,
            <<"jup-dca", "tokenJupDca", <<"tokenAddress", "filters", "orderBy", "pagination">> >>,
            <<"perp-trades", "tokenPerpTrades",
              <<"tokenSymbol", "filters", "orderBy", "pagination", "days">> >>,
            <<"perp-positions", "tokenPerpPositions",
              <<"tokenSymbol", "filters", "orderBy", "pagination">> >>,
            <<"perp-pnl-leaderboard", "tokenPerpPnlLeaderboard",
              <<"tokenSymbol", "filters", "orderBy", "pagination", "days">> >> >>
    [] OTHER ->
         << <<"defi", "portfolioDefiHoldings", <<"walletAddress">> >>,
            <<"defi-holdings", "portfolioDefiHoldings", <<"walletAddress">> >> >>

\* Object.keys(handlers): the data entries, then help
HandlerNames(family) ==
  [i \in 1..Len(DataHandlers(family)) |-> DataHandlers(family)[i][1]] \o <<"help">>

StrArr(strs) == Arr([i \in 1..Len(strs) |-> Str(strs[i])])

\* the object the help entry of a family returns
HelpObject(family) ==
  CASE family = "smart-money" ->
         Obj(<< <<"commands", StrArr(<<"netflow", "dex-trades", "perp-trades", "holdings",
                                       "dcas", "historical-holdings">>)>>,
                <<"description", Str("Smart Money analytics endpoints")>>,
                <<"example", Str("nansen smart-money netflow --chain solana --labels Fund")>> >>)
    [] family = "profiler" ->
         Obj(<< <<"commands", StrArr(<<"balance", "labels", "transactions", "pnl", "search",
                                       "historical-balances", "related-wallets",
                                       "counterparties", "pnl-summary", "perp-positions",
                                       "perp-trades">>)>>,
                <<"description", Str("Wallet profiling endpoints")>>,
                <<"example", Str("nansen profiler balance --address 0x123... --chain ethereum")>> >>)
    [] family = "token" ->
         Obj(<< <<"commands", StrArr(<<"screener", "holders", "flows", "dex-trades", "pnl",
                                       "who-bought-sold", "flow-intelligence", "transfers",
                                       "jup-dca", "perp-trades", "perp-positions",
                                       "perp-pnl-leaderboard">>)>>,
                <<"description", Str("Token God Mode endpoints")>>,
                <<"example", Str("nansen token screener --chain solana --timeframe 24h --smart-money")>> >>)
    [] OTHER ->
         Obj(<< <<"commands", StrArr(<<"defi", "defi-holdings">>)>>,
                <<"description", Str("Portfolio analytics endpoints")>>,
                <<"example", Str("nansen portfolio defi --wallet 0x123...")>> >>)

\* the dispatch of a family handler on the subcommand: table holds the data
\* entries of its handlers object, lv its local variables
Dispatch(family, subcommand, table, lv, options) ==
  LET own == {i \in 1..Len(table) : table[i][1] = subcommand}
      entry == table[CHOOSE i \in own : TRUE]
      inherited == InheritedCall(subcommand, HandlerNames(family), <<>>)
  IN IF lv.k = "throw" THEN [k |-> "throw", err |-> lv.err, options |-> options]
     ELSE IF own # {} THEN
       [k |-> "call", method |-> entry[2], params |-> Obj([i \in 1..Len(entry[3]) |-> <<entry[3][i], GetProp(lv.locals, entry[3][i])>>]),
        options |-> lv.options]
     ELSE IF subcommand = "help" THEN
       [k |-> "return", val |-> HelpObject(family), options |-> lv.options]
     ELSE IF subcommand \in InheritedMembers THEN
       (IF inherited.k = "throw"
        THEN [k |-> "throw", err |-> inherited.err, options |-> lv.options]
        ELSE [k |-> "return", val |-> inherited.val, options |-> lv.options])
     ELSE
       [k |-> "return",
        val |-> Obj(<< <<"error", Str("Unknown subcommand: " \o subcommand)>>,
                       <<"available", StrArr(HandlerNames(family))>> >>),
        options |-> lv.options]

\* commands[family](args, apiInstance, flags, options), with
\* subcommand = args[0] || 'help'
FamilyHandler(family, args, flags, options) ==
  Dispatch(family, IF Len(args) >= 1 /\ args[1] # "" THEN args[1] ELSE "help",
           DataHandlers(family), FamilyLocals(family, flags, options), options)

(***************************************************************************)
(* runCLI (cli.js 487-546) with login and logout (294-335)                 *)
(***************************************************************************)
\* the text of HELP, cut after its USAGE section
HELP ==
  "\nNansen CLI - Command-line interface for Nansen API\nDesigned for AI agents with structured JSON output.\n\nUSAGE:\n  nansen <command> [subcommand] [options]\n"

\* NO_AUTH_COMMANDS with logout left out
NO_AUTH_COMMANDS_NoLogout == <<"login", "help">>

NO_AUTH_COMMANDS == <<"login", "logout", "help">>

\* Object.keys({ ...buildCommands(deps), ...commandOverrides }) with the
\* default empty commandOverrides
CommandNames == <<"login", "logout", "help", "smart-money", "profiler", "token", "portfolio">>

Includes(list, x) == \E i \in 1..Len(list) : list[i] = x

\* commands[command] is truthy: an own key or an inherited member
CommandFound(command) == Includes(CommandNames, command) \/ command \in InheritedMembers

\* the path getConfigFileFn returns
ConfigFile == "~/.nansen/config.json"

RECURSIVE TrimStart(_)
TrimStart(s) == IF Ch(s, 1) \in {" ", "\n", "\t", "\r"} THEN TrimStart(Slice(s, 1)) ELSE s

RECURSIVE TrimEnd(_)
TrimEnd(s) ==
  IF Ch(s, Len(s)) \in {" ", "\n", "\t", "\r"} THEN TrimEnd(Take(s, Len(s) - 1)) ELSE s

\* s.trim()
Trim(s) == TrimEnd(TrimStart(s))

\* the local variables of runCLI after parsing
Command(p) == IF Len(p.positional) >= 1 /\ p.positional[1] # "" THEN p.positional[1] ELSE "help"

SubArgs(p) == IF Len(p.positional) >= 1 THEN Tail(p.positional) ELSE <<>>

Pretty(p) == Or(GetProp(p.flags, "pretty"), GetProp(p.flags, "p"))

Table(p) == Or(GetProp(p.flags, "table"), GetProp(p.flags, "t"))

\* the help test without the short flag: command === 'help' || flags.help
WantsHelp_NoShortFlag(p) ==
  Command(p) = "help" \/ Truthy(GetProp(p.flags, "help"))

WantsHelp(p) ==
  Command(p) = "help" \/ Truthy(GetProp(p.flags, "help")) \/ Truthy(GetProp(p.flags, "h"))

\* flags['no-retry'] ? { maxRetries: 0 } : { maxRetries: options.retries || 3 }
RetryOptions(p) ==
  IF Truthy(GetProp(p.flags, "no-retry"))
  THEN Obj(<< <<"maxRetries", Num(0)>> >>)
  ELSE Obj(<< <<"maxRetries", Or(GetProp(p.options, "retries"), Num(3))>> >>)

\* new NansenAPIClass(apiKey, baseUrl, options); ok tells whether the
\* constructor returned a client or threw
Construction(apiKey, options, ok) ==
  [apiKey |-> apiKey, baseUrl |-> Undef, options |-> options, ok |-> ok]

(***************************************************************************)
(* What the collaborators can do: the values an API method resolves to,    *)
(* the errors the API client throws, the keys typed at the login prompt.   *)
(***************************************************************************)
ApiResults ==
  {Obj(<< <<"x", Num(1)>> >>),
   Arr(<< Obj(<< <<"token", Str("SOL")>>, <<"value", Num(100)>> >>) >>),
   Arr(<<Null>>),
   Undef}

ApiErrors ==
  {Obj(<< <<"message", Str("API Error")>> >>),
   Obj(<< <<"message", Str("Rate limited")>>, <<"code", Str("RATE_LIMITED")>>,
          <<"status", Num(429)>>, <<"data", Obj(<< <<"error", Str("Rate limited")>> >>)>> >>),
   Obj(<< <<"message", Str("Bad response")>>, <<"code", Str("")>>,
          <<"status", Num(0)>>, <<"data", Bool(FALSE)>> >>)}

EnteredKeys == {"", "   ", "valid-api-key", " key "}

\* the tokens of the argument lists given to runCLI
CliTokens ==
  {"smart-money", "profiler", "token", "portfolio", "login", "logout", "help",
   "bogus", "toString", "netflow", "balance", "screener", "defi",
   "--pretty", "--table", "--help", "-h", "--no-retry", "--retries", "--sort",
   "0", "5"}

Init ==
  /\ rawArgs \in TokenLists(CliTokens, MaxArgs)
  /\ pc = "start"
  /\ parsed = EmptyResult
  /\ stdout = <<>> /\ stderr = <<>> /\ exits = <<>> /\ clients = <<>>
  /\ calls = <<>> /\ invoked = <<>> /\ logs = <<>> /\ saved = <<>>
  /\ caught = <<>> /\ ret = [type |-> "none"]
  /\ http = NoRequest

\* the catch block without its exit(1)
Fail_NoExit(p, error, out, err, ex) ==
  LET errorData == formatError(error)
  IN /\ stdout' = out
     /\ stderr' = Append(err, formatOutput(errorData, Pretty(p), Table(p)).text)
     /\ exits' = ex
     /\ caught' = Append(caught, error)
     /\ ret' = [type |-> "error", data |-> errorData]

\* the catch block: format the error, print it on the error output, exit(1)
Fail(p, error, out, err, ex) ==
  LET errorData == formatError(error)
  IN /\ stdout' = out
     /\ stderr' = Append(err, formatOutput(errorData, Pretty(p), Table(p)).text)
     /\ exits' = Append(ex, 1)
     /\ caught' = Append(caught, error)
     /\ ret' = [type |-> "error", data |-> errorData]

\* the tail of the try block: wrap the result, format it, print it; an error
\* thrown by the formatter goes to the catch block
Succeed(p, result, out, err, ex) ==
  \E formatted \in {formatOutput(Obj(<< <<"success", Bool(TRUE)>>, <<"data", result>> >>),
                                  Pretty(p), Table(p))} :
    IF formatted.k = "ok"
    THEN /\ stdout' = Append(out, formatted.text)
         /\ stderr' = err
         /\ exits' = ex
         /\ caught' = caught
         /\ ret' = [type |-> "success", data |-> result]
    ELSE Fail(p, formatted.err, out, err, ex)

\* command is help, or --help / -h is present: print HELP and return
RunHelp ==
  /\ pc = "start"
  /\ \E p \in {parseArgs(rawArgs)} :
       /\ WantsHelp(p)
       /\ parsed' = p
  /\ stdout' = Append(stdout, HELP)
  /\ ret' = [type |-> "help"]
  /\ pc' = "done"
  /\ UNCHANGED <<rawArgs, http, stderr, exits, clients, calls, invoked, logs, saved, caught>>

\* { error: `Unknown command: ${command}`, available: Object.keys(commands) }
UnknownCommand(command) ==
  Obj(<< <<"error", Str("Unknown command: " \o command)>>,
         <<"available", StrArr(CommandNames)>> >>)

\* commands[command] is missing: print the payload and exit(1)
RunUnknown ==
  /\ pc = "start"
  /\ \E p \in {parseArgs(rawArgs)} :
       /\ ~WantsHelp(p)
       /\ ~CommandFound(Command(p))
       /\ parsed' = p
       /\ stdout' = Append(stdout,
                           formatOutput(UnknownCommand(Command(p)), Pretty(p), Table(p)).text)
       /\ ret' = [type |-> "error", data |-> UnknownCommand(Command(p))]
  /\ exits' = Append(exits, 1)
  /\ pc' = "done"
  /\ UNCHANGED <<rawArgs, http, stderr, clients, calls, invoked, logs, saved, caught>>

\* login, up to the prompt it awaits
RunLogin ==
  /\ pc = "start"
  /\ \E p \in {parseArgs(rawArgs)} :
       /\ ~WantsHelp(p)
       /\ Command(p) = "login"
       /\ parsed' = p
  /\ Includes(NO_AUTH_COMMANDS, "login")
  /\ invoked' = Append(invoked, [command |-> "login", api |-> "null"])
  /\ logs' = logs \o <<"Nansen CLI Login\n", "Get your API key at: https://app.nansen.ai/api\n">>
  /\ pc' = "prompt"
  /\ UNCHANGED <<rawArgs, http, stdout, stderr, exits, clients, calls, saved, caught, ret>>

\* the blank-key branch without its exit(1)
LoginNoKey_NoExit ==
  /\ pc = "prompt"
  /\ \E apiKey \in EnteredKeys :
       /\ apiKey = "" \/ Len(Trim(apiKey)) = 0
       /\ logs' = Append(logs, "\n(x) No API key provided")
       /\ exits' = exits
  /\ ret' = [type |-> "no-auth", command |-> "login"]
  /\ pc' = "done"
  /\ UNCHANGED <<rawArgs, http, parsed, stdout, stderr, clients, calls, invoked, saved, caught>>

\* the prompt resolves with a blank key: login exits, runCLI returns
LoginNoKey ==
  /\ pc = "prompt"
  /\ \E apiKey \in EnteredKeys :
       /\ apiKey = "" \/ Len(Trim(apiKey)) = 0
       /\ logs' = Append(logs, "\n(x) No API key provided")
       /\ exits' = Append(exits, 1)
  /\ ret' = [type |-> "no-auth", command |-> "login"]
  /\ pc' = "done"
  /\ UNCHANGED <<rawArgs, http, parsed, stdout, stderr, clients, calls, invoked, saved, caught>>

\* the prompt resolves with a key: login builds a client from the trimmed
\* key and calls tokenScreener; a throwing constructor goes to login's catch
LoginValidate ==
  /\ pc = "prompt"
  /\ \E apiKey \in EnteredKeys, ok \in BOOLEAN, error \in ApiErrors :
       /\ ~(apiKey = "" \/ Len(Trim(apiKey)) = 0)
       /\ clients' = Append(clients, Construction(Str(Trim(apiKey)), Undef, ok))
       /\ IF ok
          THEN /\ logs' = Append(logs, "\nValidating API key...")
               /\ calls' = Append(calls,
                    [method |-> "tokenScreener",
                     params |-> Obj(<< <<"chains", Arr(<<Str("solana")>>)>>,
                                       <<"pagination", Obj(<< <<"page", Num(1)>>,
                                                              <<"per_page", Num(1)>> >>)>> >>)])
               /\ pc' = "probe"
               /\ UNCHANGED <<exits, ret>>
          ELSE /\ logs' = logs \o <<"\nValidating API key...",
                                    "\n(x) Invalid API key: " \o ToStr(PropOf(error, "message"))>>
               /\ exits' = Append(exits, 1)
               /\ ret' = [type |-> "no-auth", command |-> "login"]
               /\ pc' = "done"
               /\ UNCHANGED calls
  /\ UNCHANGED <<rawArgs, http, parsed, stdout, stderr, invoked, saved, caught>>

\* the probe call resolves: save the configuration built from the trimmed key
LoginProbeOk ==
  /\ pc = "probe"
  /\ saved' = Append(saved, Obj(<< <<"apiKey", clients[Len(clients)].apiKey>>,
                                   <<"baseUrl", Str("https://api.nansen.ai")>> >>))
  /\ logs' = logs \o <<"(v) API key validated", "(v) Saved to " \o ConfigFile \o "\n",
                       "You can now use the Nansen CLI. Try:",
                       "  nansen token screener --chain solana --pretty">>
  /\ ret' = [type |-> "no-auth", command |-> "login"]
  /\ pc' = "done"
  /\ UNCHANGED <<rawArgs, http, parsed, stdout, stderr, exits, clients, calls, invoked, caught>>

\* the probe call rejects: report and exit(1)
LoginProbeFail ==
  /\ pc = "probe"
  /\ \E error \in ApiErrors :
       logs' = Append(logs, "\n(x) Invalid API key: " \o ToStr(PropOf(error, "message")))
  /\ exits' = Append(exits, 1)
  /\ ret' = [type |-> "no-auth", command |-> "login"]
  /\ pc' = "done"
  /\ UNCHANGED <<rawArgs, http, parsed, stdout, stderr, clients, calls, invoked, saved, caught>>

\* logout: deleteConfigFn tells whether there was a file to remove
RunLogout ==
  /\ pc = "start"
  /\ \E p \in {parseArgs(rawArgs)} :
       /\ ~WantsHelp(p)
       /\ Command(p) = "logout"
       /\ parsed' = p
  /\ Includes(NO_AUTH_COMMANDS, "logout")
  /\ invoked' = Append(invoked, [command |-> "logout", api |-> "null"])
  /\ \E deleted \in BOOLEAN :
       logs' = Append(logs, IF deleted THEN "(v) Removed " \o ConfigFile
                            ELSE "No saved credentials found")
  /\ ret' = [type |-> "no-auth", command |-> "logout"]
  /\ pc' = "done"
  /\ UNCHANGED <<rawArgs, http, stdout, stderr, exits, clients, calls, saved, caught>>

\* the try block up to the value commands[command] returns or awaits: ok tells
\* whether the client was constructed, error is what the constructor threw
\* otherwise; a command found without being a family is an inherited member
CommandOutcome(p, ok, error) ==
  LET inherited == InheritedCall(Command(p), CommandNames, <<StrArr(SubArgs(p))>>)
  IN IF ~ok THEN [k |-> "throw", err |-> error, options |-> p.options]
     ELSE IF Command(p) \in Families
       THEN FamilyHandler(Command(p), SubArgs(p), p.flags, p.options)
     ELSE IF inherited.k = "throw"
       THEN [k |-> "throw", err |-> inherited.err, options |-> p.options]
     ELSE [k |-> "return", val |-> inherited.val, options |-> p.options]

\* any other command found in commands: build the client with the retry
\* options and call commands[command], up to the API call it awaits
RunCommand ==
  /\ pc = "start"
  /\ \E p \in {parseArgs(rawArgs)}, ok \in BOOLEAN, error \in ApiErrors :
       /\ ~WantsHelp(p)
       /\ CommandFound(Command(p))
       /\ ~Includes(NO_AUTH_COMMANDS, Command(p))
       /\ clients' = Append(clients,
                            Construction(Undef, Obj(<< <<"retry", RetryOptions(p)>> >>), ok))
       /\ invoked' = IF ok /\ Command(p) \in Families
                     THEN Append(invoked, [command |-> Command(p), api |-> "client"])
                     ELSE invoked
       /\ \E h \in {CommandOutcome(p, ok, error)} :
            /\ parsed' = [p EXCEPT !.options = h.options]
            /\ CASE h.k = "call" ->
                      /\ calls' = Append(calls, [method |-> h.method, params |-> h.params])
                      /\ pc' = "await"
                      /\ UNCHANGED <<stdout, stderr, exits, caught, ret>>
                 [] h.k = "return" ->
                      /\ Succeed(p, h.val, stdout, stderr, exits)
                      /\ pc' = "done"
                      /\ UNCHANGED calls
                 [] OTHER ->
                      /\ Fail(p, h.err, stdout, stderr, exits)
                      /\ pc' = "done"
                      /\ UNCHANGED calls
  /\ UNCHANGED <<rawArgs, http, logs, saved>>

\* the awaited API call resolves with a result
ApiResolves ==
  /\ pc = "await"
  /\ \E result \in ApiResults : Succeed(parsed, result, stdout, stderr, exits)
  /\ pc' = "done"
  /\ UNCHANGED <<rawArgs, http, parsed, clients, calls, invoked, logs, saved>>

\* the awaited API call rejects with an error
ApiRejects ==
  /\ pc = "await"
  /\ \E error \in ApiErrors : Fail(parsed, error, stdout, stderr, exits)
  /\ pc' = "done"
  /\ UNCHANGED <<rawArgs, http, parsed, clients, calls, invoked, logs, saved>>

Next ==
  \/ RunHelp
  \/ RunUnknown
  \/ RunLogin
  \/ LoginNoKey
  \/ LoginValidate
  \/ LoginProbeOk
  \/ LoginProbeFail
  \/ RunLogout
  \/ RunCommand
  \/ ApiResolves
  \/ ApiRejects

Spec == Init /\ [][Next]_vars

(***************************************************************************)
(* Claims about runCLI                                                     *)
(***************************************************************************)
\* the argument list carries --help or -h
HelpFlagGiven == \E i \in 1..Len(rawArgs) : rawArgs[i] \in {"--help", "-h"}

\* the positional tokens of the argument list
Positional == parseArgs(rawArgs).positional

\* the command is one of the four families and no help flag is given
FamilyInvocation ==
  /\ Positional # <<>>
  /\ Positional[1] \in {"smart-money", "profiler", "token", "portfolio"}
  /\ ~HelpFlagGiven

\* everything written, standard output first
Written == stdout \o stderr

\* C1: a family invocation writes exactly one envelope in total: one text on
\* standard output and no exit, or one text on the error output and exactly
\* one exit(1); before it ends it has written nothing and not exited.
C1_OneEnvelope ==
  FamilyInvocation =>
    /\ pc = "done" =>
         \/ Len(stdout) = 1 /\ stderr = <<>> /\ exits = <<>>
         \/ stdout = <<>> /\ Len(stderr) = 1 /\ exits = <<1>>
    /\ pc # "done" => stdout = <<>> /\ stderr = <<>> /\ exits = <<>>

\* a family invocation whose API call was made and rejected has ended
C1_Witness ==
  /\ FamilyInvocation
  /\ pc = "done"
  /\ Len(calls) = 1
  /\ Len(stderr) = 1
  /\ exits = <<1>>

\* the text is the rendering of an envelope with success = false: the line
\* 'Error: ...' in table mode, JSON with success false otherwise
SignalsFailure(text) ==
  IF Truthy(Table(parsed)) THEN StartsWith(text, "Error: ")
  ELSE /\ JSONParse(text).ok
       /\ PropOf(JSONParse(text).val, "success") = Bool(FALSE)

\* C2: every invocation that ends with a non-zero exit has written exactly
\* one envelope, and that envelope has success = false.
C2_FailuresAreEnvelopes ==
  (pc = "done" /\ exits # <<>>) =>
    /\ Len(Written) = 1
    /\ SignalsFailure(Written[1])

\* the positions of the `--retries n` pairs of the argument list
RetriesPairs ==
  {i \in 1..(Len(rawArgs) - 1) : rawArgs[i] = "--retries" /\ ~StartsWith(rawArgs[i + 1], "-")}

\* every --retries value is the text of an integer n >= 0
RetriesAreIntegers ==
  \A i \in RetriesPairs :
    /\ JSONParse(rawArgs[i + 1]).ok
    /\ JSONParse(rawArgs[i + 1]).val.k = "num"
    /\ JSONParse(rawArgs[i + 1]).val.n >= 0

\* the retry count the claim prescribes for the argument list
ClaimedMaxRetries ==
  IF \E i \in 1..Len(rawArgs) : rawArgs[i] = "--no-retry" THEN 0
  ELSE IF RetriesPairs # {}
    THEN JSONParse(rawArgs[(CHOOSE i \in RetriesPairs : \A j \in RetriesPairs : j <= i) + 1]).val.n
  ELSE 3

\* the retry count handed to the i-th client
MaxRetriesOf(i) == PropOf(PropOf(clients[i].options, "retry"), "maxRetries")

\* C3: the client of a family command is constructed with maxRetries 0 under
\* --no-retry, n under `--retries n` (an integer n >= 0), and 3 otherwise;
\* the count handed to the client is always a non-negative integer.
C3_RetryPolicy ==
  FamilyInvocation =>
    \A i \in 1..Len(clients) :
      /\ RetriesAreIntegers => MaxRetriesOf(i) = Num(ClaimedMaxRetries)
      /\ MaxRetriesOf(i).k = "num"
      /\ MaxRetriesOf(i).n >= 0

\* the object a caught error is converted to when a default stands for an
\* absent field only
EnvelopeByAbsence(e) ==
  Obj(<< <<"success", Bool(FALSE)>>,
         <<"error", GetProp(e, "message")>>,
         <<"code", IF HasOwn(e, "code") THEN GetProp(e, "code") ELSE Str("UNKNOWN")>>,
         <<"status", IF HasOwn(e, "status") THEN GetProp(e, "status") ELSE Null>>,
         <<"details", IF HasOwn(e, "data") THEN GetProp(e, "data") ELSE Null>> >>)

\* the same when a default also stands for a falsy field (0, '', false, null)
EnvelopeByTruthiness(e) ==
  Obj(<< <<"success", Bool(FALSE)>>,
         <<"error", GetProp(e, "message")>>,
         <<"code", IF Truthy(GetProp(e, "code")) THEN GetProp(e, "code") ELSE Str("UNKNOWN")>>,
         <<"status", IF Truthy(GetProp(e, "status")) THEN GetProp(e, "status") ELSE Null>>,
         <<"details", IF Truthy(GetProp(e, "data")) THEN GetProp(e, "data") ELSE Null>> >>)

\* text is envelope as the flags render it: the line 'Error: <message>' in
\* table mode, JSON that reads back as the envelope otherwise
RendersEnvelope(text, envelope) ==
  IF Truthy(Table(parsed)) THEN text = "Error: " \o GetProp(envelope, "error").s
  ELSE /\ JSONParse(text).ok
       /\ JSONParse(text).val = envelope

\* a client construction of runCLI threw
ConstructionThrew == \E i \in 1..Len(clients) : clients[i].options # Undef /\ ~clients[i].ok

\* C4 as claimed: an error thrown during dispatch is caught once and becomes
\* {success: false, error, code, status, details} with code 'UNKNOWN', status
\* null and details null when the error lacks the field; it is written to
\* the error output only and exit(1) is called.
C4_DefaultsWhenAbsent ==
  /\ (pc = "done" /\ ConstructionThrew) => Len(caught) = 1
  /\ caught # <<>> =>
       /\ Len(caught) = 1
       /\ ret = [type |-> "error", data |-> EnvelopeByAbsence(caught[1])]
       /\ stdout = <<>>
       /\ Len(stderr) = 1
       /\ RendersEnvelope(stderr[1], EnvelopeByAbsence(caught[1]))
       /\ exits = <<1>>

\* C4 as amended: the same with code 'UNKNOWN', status null and details null
\* standing for a field that is absent or falsy.
C4_DefaultsWhenFalsy ==
  /\ (pc = "done" /\ ConstructionThrew) => Len(caught) = 1
  /\ caught # <<>> =>
       /\ Len(caught) = 1
       /\ ret = [type |-> "error", data |-> EnvelopeByTruthiness(caught[1])]
       /\ stdout = <<>>
       /\ Len(stderr) = 1
       /\ RendersEnvelope(stderr[1], EnvelopeByTruthiness(caught[1]))
       /\ exits = <<1>>

\* an API call rejected with an error that carries code, status and data,
\* and the envelope went out as JSON
C4_Witness ==
  /\ pc = "done"
  /\ Len(calls) = 1
  /\ Len(caught) = 1
  /\ Truthy(GetProp(caught[1], "status"))
  /\ ~Truthy(Table(parsed))
  /\ Len(stderr) = 1

\* help is asked for: no positional command, the command help, or a help flag
HelpAsked == HelpFlagGiven \/ Positional = <<>> \/ Positional[1] = "help"

\* C5: when help is asked for, runCLI writes HELP once on standard output and
\* does nothing else: no client, no handler, no API call, no exit.
C5_HelpOnly ==
  HelpAsked =>
    /\ pc \in {"start", "done"}
    /\ pc = "start" => stdout = <<>>
    /\ pc = "done" => stdout = <<HELP>>
    /\ stderr = <<>> /\ exits = <<>>
    /\ clients = <<>> /\ invoked = <<>> /\ calls = <<>>

\* help was printed for a family command given together with a help flag
C5_Witness ==
  /\ pc = "done"
  /\ HelpFlagGiven
  /\ Len(Positional) >= 2
  /\ Positional[1] \in {"smart-money", "profiler", "token", "portfolio"}
  /\ stdout = <<HELP>>

\* C6: a first positional token that is not a registered command, with no
\* help flag, gives one payload {error: 'Unknown command: <name>', available:
\* the registered commands} and exit(1), without client or handler.
C6_UnknownCommand ==
  (/\ Positional # <<>>
   /\ Positional[1] \notin {"login", "logout", "help", "smart-money", "profiler",
                            "token", "portfolio"}
   /\ ~HelpFlagGiven) =>
    /\ clients = <<>> /\ invoked = <<>>
    /\ pc = "done" =>
         /\ Len(Written) = 1
         /\ exits = <<1>>
         /\ ret = [type |-> "error",
                   data |-> Obj(<< <<"error", Str("Unknown command: " \o Positional[1])>>,
                                   <<"available",
                                     StrArr(<<"login", "logout", "help", "smart-money",
                                              "profiler", "token", "portfolio">>)>> >>)]

\* the command is login, logout or help and no help flag is given
NoAuthInvocation ==
  /\ Positional # <<>>
  /\ Positional[1] \in {"login", "logout", "help"}
  /\ ~HelpFlagGiven

\* C7 as claimed: for login, logout and help the handler is called with a
\* null client and no API client is constructed at any point.
C7_NoClientAtAll ==
  NoAuthInvocation =>
    /\ clients = <<>>
    /\ pc = "done" => invoked = <<[command |-> Positional[1], api |-> "null"]>>

\* C7 as amended: for login and logout runCLI constructs no client and calls
\* the handler once, with a null client; for help no handler is called and no
\* client is constructed; the only client of a login invocation is the one
\* the login handler builds from the trimmed, non-blank entered key.
C7_NoAuthBypass ==
  NoAuthInvocation =>
    /\ \A i \in 1..Len(clients) :
         /\ clients[i].options = Undef
         /\ clients[i].apiKey \in {Str(Trim(key)) : key \in EnteredKeys}
         /\ clients[i].apiKey # Str("")
    /\ Len(clients) <= 1
    /\ Positional[1] # "login" => clients = <<>>
    /\ Positional[1] = "help" => invoked = <<>>
    /\ (Positional[1] # "help" /\ pc # "start") =>
         invoked = <<[command |-> Positional[1], api |-> "null"]>>

\* a login whose probe call succeeded and whose key was saved
C7_Witness ==
  /\ NoAuthInvocation
  /\ Positional[1] = "login"
  /\ pc = "done"
  /\ Len(clients) = 1
  /\ Len(saved) = 1

\* the client of the invocation was constructed and handed to the handler
ClientBuilt == clients # <<>> /\ clients[1].ok

\* C8: a subcommand that is not one of the family's handlers makes the
\* handler return {error: 'Unknown subcommand: <name>', available: the
\* family's handler names} without an API call, and runCLI reports it as a
\* success on standard output without exit.
C8_UnknownSubcommand ==
  (/\ FamilyInvocation
   /\ Len(Positional) >= 2
   /\ ~Includes(HandlerNames(Positional[1]), Positional[2])
   /\ ClientBuilt) =>
    /\ calls = <<>>
    /\ pc = "done" =>
         /\ ret = [type |-> "success",
                   data |-> Obj(<< <<"error", Str("Unknown subcommand: " \o Positional[2])>>,
                                   <<"available", StrArr(HandlerNames(Positional[1]))>> >>)]
         /\ Len(stdout) = 1 /\ stderr = <<>> /\ exits = <<>>

\* the names of the data handlers of a family: its handler names without help
DataSubcommands(family) ==
  [i \in 1..Len(DataHandlers(family)) |-> DataHandlers(family)[i][1]]

\* C9: with no subcommand, or the subcommand help, the handler returns the
\* descriptive object {commands, description, example} whose commands are
\* the family's data subcommands, and no API method is invoked, whatever the
\* options and flags.
C9_HelpSubcommand ==
  (/\ FamilyInvocation
   /\ (Len(Positional) = 1 \/ Positional[2] = "help")
   /\ ClientBuilt) =>
    /\ calls = <<>>
    /\ pc = "done" =>
         /\ ret.type = "success"
         /\ ret.data.k = "obj"
         /\ ObjectKeys(ret.data) = <<"commands", "description", "example">>
         /\ GetProp(ret.data, "commands") = StrArr(DataSubcommands(Positional[1]))

(***************************************************************************)
(* The family handlers called with parsed options (cli.js 341-479)         *)
(***************************************************************************)
\* the number of option groups given to a handler
MaxOptions == 2

\* option groups as they appear on the command line
OptionGroups ==
  { <<>>,
    <<"--limit", "10">>, <<"--limit", "0">>,
    <<"--chain", "ethereum">>,
    <<"--chains", "[\"ethereum\",\"base\"]">>, <<"--chains", "ethereum">>,
    <<"--labels", "Fund">>, <<"--labels", "[\"Fund\",\"Whale\"]">>, <<"--labels", "0">>,
    <<"--filters", "{\"min_usd\":5}">>,
    <<"--smart-money">>,
    <<"--sort", "5">> }

RECURSIVE OptionLists(_)
OptionLists(n) ==
  IF n = 0 THEN {<<>>}
  ELSE {g \o r : g \in OptionGroups, r \in OptionLists(n - 1)}

InitFamily ==
  /\ \E family \in Families :
       \E i \in 1..Len(HandlerNames(family)), opts \in OptionLists(MaxOptions) :
         rawArgs = <<family, HandlerNames(family)[i]>> \o opts
  /\ pc = "start"
  /\ parsed = EmptyResult
  /\ stdout = <<>> /\ stderr = <<>> /\ exits = <<>> /\ clients = <<>>
  /\ calls = <<>> /\ invoked = <<>> /\ logs = <<>> /\ saved = <<>>
  /\ caught = <<>> /\ ret = [type |-> "none"]
  /\ http = NoRequest

\* commands[family](args, apiInstance, flags, options) up to the API call
\* it makes, or to its return or throw when it makes none
CallFamily ==
  /\ pc = "start"
  /\ \E p \in {parseArgs(rawArgs)} :
       \E h \in {FamilyHandler(Command(p), SubArgs(p), p.flags, p.options)} :
         /\ parsed' = [p EXCEPT !.options = h.options]
         /\ invoked' = Append(invoked, [command |-> Command(p), api |-> "client"])
         /\ CASE h.k = "call" ->
                   /\ calls' = Append(calls, [method |-> h.method, params |-> h.params])
                   /\ pc' = "pending"
                   /\ UNCHANGED ret
              [] h.k = "return" ->
                   /\ ret' = [type |-> "handler", k |-> "return", val |-> h.val]
                   /\ pc' = "settled"
                   /\ UNCHANGED calls
              [] OTHER ->
                   /\ ret' = [type |-> "handler", k |-> "throw", err |-> h.err]
                   /\ pc' = "settled"
                   /\ UNCHANGED calls
  /\ UNCHANGED <<rawArgs, http, stdout, stderr, exits, clients, logs, saved, caught>>

\* return handlers[subcommand](): the API method resolves with a result and
\* the handler's promise resolves with it
MethodResolves ==
  /\ pc = "pending"
  /\ \E result \in ApiResults :
       /\ calls' = [calls EXCEPT ![Len(calls)] =
                      [method |-> @.method, params |-> @.params, settled |-> result]]
       /\ ret' = [type |-> "handler", k |-> "return", val |-> result]
  /\ pc' = "settled"
  /\ UNCHANGED <<rawArgs, http, parsed, stdout, stderr, exits, clients, invoked, logs, saved,
                 caught>>

\* the API method rejects and the handler's promise rejects with its error
MethodRejects ==
  /\ pc = "pending"
  /\ \E error \in ApiErrors :
       /\ calls' = [calls EXCEPT ![Len(calls)] =
                      [method |-> @.method, params |-> @.params, settled |-> error]]
       /\ ret' = [type |-> "handler", k |-> "throw", err |-> error]
  /\ pc' = "settled"
  /\ UNCHANGED <<rawArgs, http, parsed, stdout, stderr, exits, clients, invoked, logs, saved,
                 caught>>

NextFamily == CallFamily \/ MethodResolves \/ MethodRejects

SpecFamily == InitFamily /\ [][NextFamily]_vars

(***************************************************************************)
(* Claims about the family handlers                                        *)
(***************************************************************************)
\* the handler has called an API method
MethodCalled == pc \in {"pending", "settled"} /\ calls # <<>>

\* the options as parseArgs returned them
GivenOptions == parseArgs(rawArgs).options

\* the name a family gives to the page size
PageSizeName(family) == IF family = "profiler" THEN "recordsPerPage" ELSE "per_page"

PaginationFollowsLimit(options, family, params) ==
  HasOwn(params, "pagination") =>
    GetProp(params, "pagination") =
      IF HasOwn(options, "limit")
      THEN Obj(<< <<"page", Num(1)>>, <<PageSizeName(family), GetProp(options, "limit")>> >>)
      ELSE Undef

\* C12: whenever --limit is present with value n, the pagination passed to
\* the API method is {page: 1, per_page: n} for smart-money and token and
\* {page: 1, recordsPerPage: n} for profiler; when --limit is absent the
\* pagination passed is undefined.
C12_Pagination ==
  MethodCalled => PaginationFollowsLimit(GivenOptions, rawArgs[1], calls[1].params)

\* the value of an option, or a default when the option is absent
OptionOr(options, name, default) ==
  IF HasOwn(options, name) THEN GetProp(options, name) ELSE default

ChainsFollowOptions(options, family, params) ==
  /\ (family \in {"smart-money", "token"} /\ HasOwn(params, "chains")) =>
       /\ IsArray(GetProp(params, "chains"))
       /\ GetProp(params, "chains") =
            OptionOr(options, "chains", Arr(<<OptionOr(options, "chain", Str("solana"))>>))
  /\ (family = "profiler" /\ HasOwn(params, "chain")) =>
       GetProp(params, "chain") = OptionOr(options, "chain", Str("ethereum"))

\* C13: for smart-money and token the chains value passed to the API is
\* always an array: the --chains value when present, otherwise the
\* one-element array [chain] with chain the --chain value or 'solana'; for
\* profiler the chain passed is the --chain value or 'ethereum'.
C13_Chains ==
  MethodCalled => ChainsFollowOptions(GivenOptions, rawArgs[1], calls[1].params)

\* the filters passed hold the labels as an array under
\* include_smart_money_labels and every other key of the given filters
FiltersWithLabels(given, passed, labels) ==
  /\ passed.k = "obj"
  /\ GetProp(passed, "include_smart_money_labels") =
       (IF IsArray(labels) THEN labels ELSE Arr(<<labels>>))
  /\ \A i \in 1..Len(given.o) :
       given.o[i][1] # "include_smart_money_labels" =>
         GetProp(passed, given.o[i][1]) = given.o[i][2]
  /\ \A i \in 1..Len(passed.o) :
       passed.o[i][1] = "include_smart_money_labels" \/ HasOwn(given, passed.o[i][1])

\* a smart-money call whose --filters option is absent or an object
SmartMoneyCalled ==
  /\ MethodCalled
  /\ rawArgs[1] = "smart-money"
  /\ OptionOr(GivenOptions, "filters", Obj(<<>>)).k = "obj"

LabelsFolded(options, params, folded) ==
  IF folded
  THEN FiltersWithLabels(OptionOr(options, "filters", Obj(<<>>)), GetProp(params, "filters"),
                         GetProp(options, "labels"))
  ELSE HasOwn(options, "labels") \/
         GetProp(params, "filters") = OptionOr(options, "filters", Obj(<<>>))

DataSubcommandCalled == pc \in {"pending", "settled"} /\ rawArgs[2] # "help"

\* the API method a family maps a data subcommand to
MethodOf(family, subcommand) ==
  LET table == DataHandlers(family)
  IN table[CHOOSE i \in 1..Len(table) : table[i][1] = subcommand][2]

\* the parameters the netflow test expects for {chain: 'ethereum', limit: 10}
NetflowParams ==
  Obj(<< <<"chains", Arr(<<Str("ethereum")>>)>>,
         <<"filters", Obj(<<>>)>>,
         <<"orderBy", Undef>>,
         <<"pagination", Obj(<< <<"page", Num(1)>>, <<"per_page", Num(10)>> >>)>> >>)

\* C15: for every family and every recognised data subcommand the handler
\* invokes exactly one API method exactly once and returns its result
\* unchanged; smart-money netflow with {chain: 'ethereum', limit: 10} calls
\* smartMoneyNetflow with exactly {chains: ['ethereum'], filters: {},
\* orderBy: undefined, pagination: {page: 1, per_page: 10}}.
C15_OneMethodOnce ==
  DataSubcommandCalled =>
    /\ Len(calls) = 1
    /\ calls[1].method = MethodOf(rawArgs[1], rawArgs[2])
    /\ pc = "settled" =>
         /\ ret.type = "handler"
         /\ ret.k = "return" => ret.val = calls[1].settled
         /\ ret.k = "throw" => ret.err = calls[1].settled
    /\ rawArgs = <<"smart-money", "netflow", "--chain", "ethereum", "--limit", "10">> =>
         (calls[1].method = "smartMoneyNetflow" /\ calls[1].params = NetflowParams)

\* C16: ParsedArgs is immutable after parsing: once parseArgs has returned,
\* no family handler modifies the positional list, the flags map or the
\* options map, including the object held in options.filters, for any
\* combination of options.
C16_ParsedArgsImmutable == pc # "start" => parsed = parseArgs(rawArgs)

(***************************************************************************)
(* The HTTP client and its retry policy (api.js), after its documented     *)
(* contract: call(path, body) returns a JSON value or throws an error      *)
(***************************************************************************)
\* the largest retry limit a client is built with
MaxRetries == 3

\* the outcomes of one fetch that the API tests simulate: a success, a 401
\* and a 429 response with their JSON bodies, and a network failure
MockResponses ==
  {[kind |-> "ok", status |-> 200, body |-> Obj(<< <<"netflows", Arr(<<>>)>> >>)],
   [kind |-> "http", status |-> 401,
    body |-> Obj(<< <<"error", Str("Unauthorized")>>, <<"message", Str("Invalid API key")>> >>)],
   [kind |-> "http", status |-> 429, body |-> Obj(<< <<"error", Str("Rate limited")>> >>)],
   [kind |-> "network", status |-> 0, body |-> Str("Network error")]}

\* the outcomes of one fetch: the simulated ones and the other statuses the
\* retry policy names, 400 and the 5xx class
Responses ==
  MockResponses \cup
  {[kind |-> "http", status |-> 400, body |-> Obj(<< <<"error", Str("Bad request")>> >>)],
   [kind |-> "http", status |-> 500, body |-> Obj(<<>>)],
   [kind |-> "http", status |-> 503, body |-> Obj(<< <<"error", Str("Unavailable")>> >>)]}

\* the retriable failures without the network-level one
Retriable_NoNetwork(r) == r.kind = "http" /\ (r.status = 429 \/ r.status >= 500)

\* a failure the policy retries: no response, or a status of transient
\* overload (429, 5xx)
Retriable(r) == r.kind = "network" \/ (r.kind = "http" /\ (r.status = 429 \/ r.status >= 500))

\* retries remaining >= 0: one retry more than the limit
RetriesRemain_Inclusive(h) == h.attempt <= h.maxRetries

\* retries remaining > 0
RetriesRemain(h) == h.attempt < h.maxRetries

\* the error raised for an HTTP-level failure: a message, and the status and
\* the body of the response
HttpError(r) ==
  Obj(<< <<"message", Or(Or(GetProp(r.body, "message"), GetProp(r.body, "error")),
                         Str("HTTP " \o ToString(r.status)))>>,
         <<"status", Num(r.status)>>,
         <<"data", r.body>> >>)

\* the network error given a status of 0
NetworkError_WithStatus(r) == Obj(<< <<"message", r.body>>, <<"status", Num(0)>> >>)

\* the generic error raised for a network-level failure: no status
NetworkError(r) == Obj(<< <<"message", r.body>> >>)

RaisedError(r) == IF r.kind = "network" THEN NetworkError(r) ELSE HttpError(r)

InitRetry ==
  /\ rawArgs = <<>>
  /\ pc = "start"
  /\ parsed = EmptyResult
  /\ stdout = <<>> /\ stderr = <<>> /\ exits = <<>> /\ clients = <<>>
  /\ calls = <<>> /\ invoked = <<>> /\ logs = <<>> /\ saved = <<>>
  /\ caught = <<>> /\ ret = [type |-> "none"]
  /\ http \in {[NoRequest EXCEPT !.maxRetries = n] : n \in 0..MaxRetries}

\* call(path, body) begins: no attempt made yet
Request ==
  /\ pc = "start"
  /\ http' = [http EXCEPT !.outcome = [k |-> "pending"]]
  /\ pc' = "fetch"
  /\ UNCHANGED <<rawArgs, parsed, stdout, stderr, exits, clients, calls, invoked, logs, saved,
                 caught, ret>>

\* the classification blind to the status: any failure is retried while
\* retries remain
Classified_StatusBlind(h, r) ==
  IF r.kind = "ok" THEN [h EXCEPT !.outcome = [k |-> "return", val |-> r.body]]
  ELSE IF RetriesRemain(h) THEN h
  ELSE [h EXCEPT !.outcome = [k |-> "throw", err |-> RaisedError(r)]]

\* the outcome of a fetch, classified: a success is returned, a retriable
\* failure with retries remaining goes to the delay, any other failure is
\* raised
Classified(h, r) ==
  IF r.kind = "ok" THEN [h EXCEPT !.outcome = [k |-> "return", val |-> r.body]]
  ELSE IF Retriable(r) /\ RetriesRemain(h) THEN h
  ELSE [h EXCEPT !.outcome = [k |-> "throw", err |-> RaisedError(r)]]

\* an HTTP request sent while another one is still in flight
Send_WithoutWaiting ==
  /\ pc = "fetch"
  /\ http.inFlight < 2
  /\ http' = [http EXCEPT !.inFlight = @ + 1]
  /\ UNCHANGED <<rawArgs, pc, parsed, stdout, stderr, exits, clients, calls, invoked, logs,
                 saved, caught, ret>>

\* the HTTP request of one attempt is sent: the call is suspended until the
\* response or the failure arrives
Send ==
  /\ pc = "fetch"
  /\ http.inFlight = 0
  /\ http' = [http EXCEPT !.inFlight = @ + 1]
  /\ UNCHANGED <<rawArgs, pc, parsed, stdout, stderr, exits, clients, calls, invoked, logs,
                 saved, caught, ret>>

\* the outcome of the request in flight arrives and is classified
Fetch ==
  /\ pc = "fetch"
  /\ http.inFlight > 0
  /\ \E r \in Responses :
       \E h \in {Classified([http EXCEPT !.fetches = Append(@, r), !.inFlight = @ - 1], r)} :
         /\ http' = h
         /\ pc' = IF h.outcome.k = "pending" THEN "backoff" ELSE "done"
  /\ UNCHANGED <<rawArgs, parsed, stdout, stderr, exits, clients, calls, invoked, logs, saved,
                 caught, ret>>

\* the base delay and the cap of the delays, in milliseconds: values picked
\* so that the cap takes effect within MaxRetries retries
BaseDelay == 1000

MaxDelay == 3000

\* the delay before a retry has elapsed: base delay x 2^attempt under the
\* cap; the attempt count increments and the next attempt may be sent
Backoff ==
  /\ pc = "backoff"
  /\ http' = [http EXCEPT !.delays = Append(@, Min2(BaseDelay * 2^http.attempt, MaxDelay)),
                          !.attempt = @ + 1]
  /\ pc' = "fetch"
  /\ UNCHANGED <<rawArgs, parsed, stdout, stderr, exits, clients, calls, invoked, logs, saved,
                 caught, ret>>

NextRetry == Request \/ Send \/ Fetch \/ Backoff

SpecRetry == InitRetry /\ [][NextRetry]_vars

(***************************************************************************)
(* Claims about the retry policy                                           *)
(***************************************************************************)
\* the i-th HTTP attempt of the call failed
Failed(i) == http.fetches[i].kind # "ok"

\* the call has raised the error of its last attempt
RaisedLast ==
  /\ pc = "done"
  /\ http.outcome = [k |-> "throw", err |-> RaisedError(http.fetches[Len(http.fetches)])]

\* C17: with maxRetries = 0 the first failure of any kind (a retriable
\* status, a non-retriable status or a network-level failure) raises
\* immediately: exactly one HTTP attempt is made, no delay is waited and no
\* further call is issued.
C17_NoRetry ==
  (http.maxRetries = 0 /\ http.fetches # <<>> /\ Failed(1)) =>
    /\ Len(http.fetches) = 1
    /\ http.delays = <<>>
    /\ RaisedLast

\* a client with maxRetries = 0 has raised on a single 429 response
C17_Witness ==
  /\ http.maxRetries = 0
  /\ Len(http.fetches) = 1 /\ http.fetches[1].status = 429
  /\ http.delays = <<>>
  /\ pc = "done" /\ http.outcome.k = "throw"

\* a retriable outcome: a 429 or 5xx status, or a network-level failure
RetriableOutcome(r) ==
  r.kind = "network" \/ (r.kind = "http" /\ (r.status = 429 \/ r.status \in 500..599))

\* the number of retries made: the delays waited, each followed by an attempt
Retries == Len(http.delays)

\* C18: a call of a client with maxRetries = N makes at most N + 1 HTTP
\* attempts and then returns or raises: a retriable failure (429, 5xx or
\* network-level) among the first N attempts is retried, a success at attempt
\* k + 1 after k <= N such failures is returned after exactly k retries, and
\* the (N + 1)-th retriable failure is raised.
C18_BoundedRetries ==
  LET n == Len(http.fetches)
      N == http.maxRetries
  IN /\ n <= N + 1
     /\ Retries <= N
     /\ (n >= 1 /\ n <= N /\ RetriableOutcome(http.fetches[n])) =>
          /\ http.outcome.k = "pending"
          /\ pc \in {"backoff", "fetch"}
     /\ (n >= 1 /\ http.fetches[n].kind = "ok") =>
          /\ pc = "done"
          /\ http.outcome = [k |-> "return", val |-> http.fetches[n].body]
          /\ Retries = n - 1
          /\ \A i \in 1..(n - 1) : RetriableOutcome(http.fetches[i])
     /\ (n = N + 1 /\ RetriableOutcome(http.fetches[n])) =>
          /\ RaisedLast
          /\ Retries = N

\* maxRetries = 3: three 429 responses then a success return the success
\* after exactly 3 retries
C18_Witness ==
  /\ http.maxRetries = 3
  /\ Len(http.fetches) = 4
  /\ \A i \in 1..3 : http.fetches[i].status = 429
  /\ http.fetches[4].kind = "ok"
  /\ pc = "done"
  /\ http.outcome = [k |-> "return", val |-> http.fetches[4].body]
  /\ Retries = 3

\* an HTTP-level failure whose status is not retriable, such as 400 or 401
NonRetriableStatus(r) == r.kind = "http" /\ r.status \in 400..499 /\ r.status # 429

\* C19: an HTTP-level failure with a non-retriable status (400, 401) raises
\* on the attempt where it occurs, with no delay and no further HTTP attempt,
\* however many retries remain, also after earlier retried failures.
C19_NonRetriableRaises ==
  \A i \in 1..Len(http.fetches) :
    NonRetriableStatus(http.fetches[i]) =>
      /\ i = Len(http.fetches)
      /\ Retries = i - 1
      /\ RaisedLast

\* a 401 raised on the second attempt, after a retried 429, with retries left
C19_Witness ==
  /\ http.maxRetries >= 2
  /\ Len(http.fetches) = 2
  /\ http.fetches[1].status = 429 /\ http.fetches[2].status = 401
  /\ Retries = 1
  /\ pc = "done" /\ http.outcome.k = "throw"

\* the call has raised an error
Raised == pc = "done" /\ http.outcome.k = "throw"

LastResponse == http.fetches[Len(http.fetches)]

\* C20: every error raised by an API call carries a human-readable message;
\* an error raised for an HTTP-level failure, at once or after the retries
\* are exhausted, carries the status and the details of the last response; an
\* error raised for a network-level failure after the retries are exhausted
\* carries no status.
C20_RaisedErrors ==
  Raised =>
    /\ GetProp(http.outcome.err, "message").k = "str"
    /\ GetProp(http.outcome.err, "message").s # ""
    /\ LastResponse.kind = "http" =>
         /\ GetProp(http.outcome.err, "status") = Num(LastResponse.status)
         /\ GetProp(http.outcome.err, "data") = LastResponse.body
    /\ LastResponse.kind = "network" =>
         /\ ~HasOwn(http.outcome.err, "status")
         /\ Retries = http.maxRetries

\* two network failures with maxRetries = 1: raised without a status, with
\* the message of the failure
C20_Witness ==
  /\ Raised
  /\ http.maxRetries = 1
  /\ Len(http.fetches) = 2
  /\ http.fetches[1].kind = "network" /\ http.fetches[2].kind = "network"
  /\ http.outcome.err = Obj(<< <<"message", Str("Network error")>> >>)

(***************************************************************************)
(* Claims about the sequence of attempts                                   *)
(***************************************************************************)
\* C21: the attempts of one API call are strictly sequential: at most one
\* HTTP request is in flight at any time; a retry is in flight only when
\* every earlier attempt has failed and the delay after each of them has
\* elapsed, no delay pending; the delay before retry number a is base delay
\* x 2^a limited by the cap, so the delays never decrease.
C21_SequentialAttempts ==
  /\ http.inFlight \in {0, 1}
  /\ http.inFlight = 1 =>
       /\ pc = "fetch"
       /\ \A i \in 1..Len(http.fetches) : http.fetches[i].kind # "ok"
       /\ Len(http.delays) = Len(http.fetches)
  /\ \A a \in 0..(Len(http.delays) - 1) :
       \/ http.delays[a + 1] = BaseDelay * 2^a /\ BaseDelay * 2^a <= MaxDelay
       \/ http.delays[a + 1] = MaxDelay /\ BaseDelay * 2^a > MaxDelay
  /\ \A a \in 1..(Len(http.delays) - 1) : http.delays[a] <= http.delays[a + 1]

C21_Witness ==
  /\ http.inFlight = 1
  /\ Len(http.fetches) = 3
  /\ http.delays = <<1000, 2000, 3000>>

(***************************************************************************)
(* Claims about login                                                      *)
(***************************************************************************)
\* runCLI has invoked the login handler
LoginInvoked == invoked # <<>> /\ invoked[1].command = "login"

\* s has a character and neither starts nor ends with a space
TrimmedKey(s) == Len(s) >= 1 /\ Ch(s, 1) # " " /\ Ch(s, Len(s)) # " "

\* the probe call login makes
ProbeCall ==
  [method |-> "tokenScreener",
   params |-> Obj(<< <<"chains", Arr(<<Str("solana")>>)>>,
                     <<"pagination", Obj(<< <<"page", Num(1)>>, <<"per_page", Num(1)>> >>)>> >>)]

====
